---- MODULE Spec2Model ----
(***************************************************************************)
(* A model of the ArcGIS-Tools utilities (src/arctools.py):                *)
(*   - get_all_feature_layers: the recursive, visibility-aware traversal   *)
(*     of a map's layer tree;                                              *)
(*   - clone_project: copy a template project, set up the default          *)
(*     geodatabase and the home folder, rebuild the folder connections,    *)
(*     save.                                                               *)
(* The host application (arcpy) and the file system are modelled by the    *)
(* state the code reads and writes through them.                           *)
(***************************************************************************)
EXTENDS Integers, Sequences, FiniteSets, TLC

(***************************************************************************)
(* Bounds of the model.                                                    *)
(***************************************************************************)
\* The largest number of layers (group layers included) in a map.
MaxNodes == 3
\* The largest number of entries in additional_folder_connections.
MaxExtras == 3
\* The largest number of layers in a map some of whose layer objects lack an
\* attribute.
MaxPartialNodes == 2
\* The largest number of layers in the first map of a contractor bundle.
MaxBundleNodes == 2
\* The largest length of the texts typed as custom_prefix and project_name.
MaxNameLen == 3
\* The largest number of layers exported to a workbook, and the largest
\* number of rows in a layer's table.
MaxExportLayers == 3
MaxTableRows == 2

VARIABLES
  \* ---- the layer tree of a map (host objects), and one traversal of it
  layerObjects,      \* layer id -> the Layer object's properties and its listLayers()
  mapLayers,         \* the list handed to get_all_feature_layers: the map's top-level layers
  layerPc,           \* "idle" | "returned" | "raised": position of the caller of get_all_feature_layers
  visible_only,      \* argument of the call
  include_groups,    \* argument of the call
  collected_layers,  \* the list the call returned (layer ids)
  \* ---- the platform, the file system and the projects on it
  osName,            \* "nt" | "posix": the os.path flavour of the platform
  aprxFiles,         \* path of a saved project (.aprx) -> its saved content
  geodatabases,      \* the paths at which a file geodatabase exists on disk
  \* ---- one run of clone_project
  clonePc,           \* position in clone_project ("idle": no run in progress)
  template_path,     \* argument
  new_project_path,  \* argument
  geodatabase_path,  \* argument; the empty path stands for None and for ""
  additional_folder_connections,  \* argument; the empty list stands for None too
  new_project,       \* the opened ArcGISProject (in memory, saved by save())
  project_folder,    \* local of clone_project
  folder_connections,\* local of clone_project
  \* ---- what an observer of the run records
  geodatabasesAtCall,   \* the geodatabases on disk when the run started
  createFileGDBCalls,   \* how often the run called CreateFileGDB
  firstRunConnections,  \* in a repeated run: the connections the first run installed
  \* ---- the folders on disk, and the calls of create_project_folders
  directories,       \* the directories that exist (by normalized path)
  plainFiles,        \* the paths at which something other than a directory exists
  folderCalls,       \* caller -> position, arguments and locals of its call
  \* ---- one run of make_contractor_bundle, from the cloned project on
  overwriteOutput,   \* arcpy.env.overwriteOutput, as the application has it set
  layerNames,        \* layer id -> the layer's name
  dataSources,       \* layer id -> the layer's dataSource (a path)
  supportsName,      \* layer id -> the layer's supports("NAME")
  clipFeatureCounts, \* layer id -> the number of features of the layer in the search area
  bundlePc,          \* position in make_contractor_bundle
  feature_layers,    \* local: the collected layers
  clipIndex,         \* the loop of line 111: index of the next layer of feature_layers
  featureClasses,    \* the new geodatabase: path -> the feature class at it
  output_paths_to_add,        \* local
  original_layers_to_remove,  \* local
  layersInMap,       \* the layers of the template still in the map
  addedLayers,       \* the layers added by addDataFromPath: the dataset path of each
  \* ---- the name composition of make_new_project
  namePc,            \* "typed" | "prefixed" | "composed"
  custom_prefix,     \* argument
  project_name,      \* argument
  safe_prefix,       \* local
  sanitized_base_name,  \* local
  full_project_name, \* local
  \* ---- one run of export_tables_to_excel, from the created writer on
  exportLayers,      \* feature_layers: per layer, its table's row count and how its export goes
  exportPc,          \* "loop" | "close" | "returned" | "raised"
  exportIndex,       \* the loop of line 54: index of the next layer
  next_row_index,    \* local
  sheet,             \* the worksheet: row index -> what was written on the row
  warnings,          \* the layers reported by arcpy.AddWarning, in order
  writerCloses,      \* how often writer.close() was called
  \* ---- one call of the older get_visible_feature_layers on the same map
  legacyPc,          \* "idle" | "returned": position of its caller
  visible_layers     \* the list the call returned (layer ids)

layerVars == <<layerObjects, mapLayers, layerPc, visible_only, include_groups,
               collected_layers>>

cloneVars == <<osName, aprxFiles, geodatabases, clonePc, template_path,
               new_project_path, geodatabase_path, additional_folder_connections,
               new_project, project_folder, folder_connections,
               geodatabasesAtCall, createFileGDBCalls, firstRunConnections>>

folderVars == <<directories, plainFiles, folderCalls>>

bundleVars == <<overwriteOutput, layerNames, dataSources, supportsName,
                clipFeatureCounts, bundlePc, feature_layers,
                clipIndex, featureClasses, output_paths_to_add,
                original_layers_to_remove, layersInMap, addedLayers>>

nameVars == <<namePc, custom_prefix, project_name, safe_prefix, sanitized_base_name,
              full_project_name>>

exportVars == <<exportLayers, exportPc, exportIndex, next_row_index, sheet, warnings,
                writerCloses>>

legacyVars == <<legacyPc, visible_layers>>

\* What the traversal and clone_project do not touch.
toolVars == <<folderVars, bundleVars, nameVars, exportVars, legacyVars>>

\* What create_project_folders does not touch.
outsideFolders == <<layerVars, cloneVars, bundleVars, nameVars, exportVars, legacyVars>>

\* What make_contractor_bundle, from the cloned project on, does not touch.
outsideBundle == <<layerVars, cloneVars, folderVars, nameVars, exportVars, legacyVars>>

\* What the name composition of make_new_project does not touch.
outsideNames == <<layerVars, cloneVars, folderVars, bundleVars, exportVars, legacyVars>>

\* What export_tables_to_excel, from the created writer on, does not touch.
outsideExport == <<layerVars, cloneVars, folderVars, bundleVars, nameVars, legacyVars>>

vars == <<layerVars, cloneVars, toolVars>>

(***************************************************************************)
(* The state of the parts that a behaviour does not exercise.              *)
(***************************************************************************)
\* The processes that may call create_project_folders.
Callers == {1, 2}

\* No call of create_project_folders in progress.  `module` is the file of
\* the function that was called: "arctools" (src/arctools.py) or
\* "arcgis_utils" (the older src/_Scripts/arcgis_utils.py, which takes
\* include_exports); raisedAt is the line of that file at which the call
\* raised FileExistsError (0: it did not).
IdleFolderCall ==
  [ pc |-> "idle", module |-> "", projects_root |-> <<>>, project_name |-> <<>>,
    include_exports |-> FALSE, project_folder |-> <<>>, returned |-> <<>>,
    directoriesAtCall |-> {}, existedAtCall |-> FALSE, raisedAt |-> 0 ]

FoldersUnused ==
  /\ directories = {}
  /\ plainFiles = {}
  /\ folderCalls = [c \in Callers |-> IdleFolderCall]

BundleUnused ==
  /\ overwriteOutput = FALSE
  /\ layerNames = <<>>
  /\ dataSources = <<>>
  /\ supportsName = <<>>
  /\ clipFeatureCounts = <<>>
  /\ bundlePc = "idle"
  /\ feature_layers = <<>>
  /\ clipIndex = 1
  /\ featureClasses = <<>>
  /\ output_paths_to_add = <<>>
  /\ original_layers_to_remove = <<>>
  /\ layersInMap = {}
  /\ addedLayers = <<>>

NamesUnused ==
  /\ namePc = "idle"
  /\ custom_prefix = <<>>
  /\ project_name = <<>>
  /\ safe_prefix = <<>>
  /\ sanitized_base_name = <<>>
  /\ full_project_name = <<>>

ExportUnused ==
  /\ exportLayers = <<>>
  /\ exportPc = "idle"
  /\ exportIndex = 1
  /\ next_row_index = 0
  /\ sheet = <<>>
  /\ warnings = <<>>
  /\ writerCloses = 0

LegacyUnused ==
  /\ legacyPc = "idle"
  /\ visible_layers = <<>>

ToolsUnused ==
  FoldersUnused /\ BundleUnused /\ NamesUnused /\ ExportUnused /\ LegacyUnused

LayersUnused ==
  /\ layerObjects = <<>>
  /\ mapLayers = <<>>
  /\ layerPc = "idle"
  /\ visible_only = FALSE
  /\ include_groups = FALSE
  /\ collected_layers = <<>>

(***************************************************************************)
(* Layer objects.  A Layer exposes isGroupLayer, visible, isFeatureLayer,  *)
(* isBasemapLayer, supports("dataSource") and listLayers().  A group layer *)
(* is not a feature layer and supports no data source; a layer that is not *)
(* a group has no children.  `missing` names the attributes the object     *)
(* does not have at all (none, for a Layer of the host application).       *)
(***************************************************************************)
LayerProperties ==
  { f \in [isGroupLayer : BOOLEAN, visible : BOOLEAN, isFeatureLayer : BOOLEAN,
           isBasemapLayer : BOOLEAN, supportsDataSource : BOOLEAN, missing : {{}}] :
      /\ f.isGroupLayer => (~f.isFeatureLayer /\ ~f.supportsDataSource)
      /\ ~f.isGroupLayer => (f.isFeatureLayer \/ f.supportsDataSource) }

\* The attributes get_all_feature_layers reads from a layer object.
LayerAttributes == {"visible", "isGroupLayer", "isFeatureLayer", "isBasemapLayer"}

\* Layer-like objects: the Layers above, and objects that lack one of the
\* attributes (the field of a lacking attribute holds FALSE and is never read).
PartialLayerProperties ==
  LayerProperties
    \cup { [f EXCEPT ![a] = FALSE, !.missing = {a}] :
             f \in LayerProperties, a \in LayerAttributes }

\* The ids, in increasing order, of the layers of `forest` whose parent is p
\* (p = 0: the top-level layers of the map).
ChildrenOf(forest, p) ==
  SelectSeq([i \in 1..Len(forest) |-> i], LAMBDA i : forest[i].parent = p)

\* The shapes of a map of n layers: layer i sits at the top level (parent 0)
\* or in an earlier layer, and siblings are listed in increasing id order.
ForestShapes(n) == { parent \in [1..n -> 0..(IF n = 0 THEN 0 ELSE n - 1)] :
                       \A i \in 1..n : parent[i] < i }

\* A map: a shape whose parents are all group layers.
IsForest(forest) ==
  \A i \in 1..Len(forest) :
     forest[i].parent # 0 => forest[forest[i].parent].props.isGroupLayer

\* The Layer objects of a map: the properties plus what listLayers() returns.
LayerTable(forest) ==
  [ i \in 1..Len(forest) |->
      [ isGroupLayer       |-> forest[i].props.isGroupLayer,
        visible            |-> forest[i].props.visible,
        isFeatureLayer     |-> forest[i].props.isFeatureLayer,
        isBasemapLayer     |-> forest[i].props.isBasemapLayer,
        supportsDataSource |-> forest[i].props.supportsDataSource,
        missing            |-> forest[i].props.missing,
        children           |-> ChildrenOf(forest, i) ] ]

(***************************************************************************)
(* get_all_feature_layers (src/arctools.py:174-228).                       *)
(***************************************************************************)
\* line 207 without the inherited flag: the layer's own flag alone.
EffectiveVisibilityIgnoringParent(layer, parent_visible) == layer.visible

\* line 207: effective_visibility = layer.visible and parent_visible
EffectiveVisibility(layer, parent_visible) == layer.visible /\ parent_visible

\* line 211: the group layer itself is collected
GroupCollected(effective_visibility, vis_only, incl_groups) ==
  incl_groups /\ (~vis_only \/ effective_visibility)

\* line 224 without `not layer.isBasemapLayer` (the test of the older
\* get_visible_feature_layers).
IsCollectableFeatureLayerNoBasemapTest(layer) ==
  layer.isFeatureLayer /\ layer.supportsDataSource

\* line 224: the test a non-group layer must pass to be considered
IsCollectableFeatureLayer(layer) ==
  layer.isFeatureLayer /\ layer.supportsDataSource /\ ~layer.isBasemapLayer

\* line 225: the visibility filter on a collectable feature layer
FeatureLayerCollected(effective_visibility, vis_only) ==
  ~vis_only \/ effective_visibility

RECURSIVE get_all_feature_layers(_, _, _, _)

\* lines 209-223 with the recursion placed inside the `if` of line 211.
GroupBranchRecursingOnlyWhenCollected(layer_id, effective_visibility, vis_only, incl_groups) ==
  IF GroupCollected(effective_visibility, vis_only, incl_groups)
  THEN <<layer_id>> \o get_all_feature_layers(layerObjects[layer_id].children,
                                             effective_visibility, vis_only, incl_groups)
  ELSE <<>>

\* lines 209-223: what one group layer adds to collected_layers
GroupBranch(layer_id, effective_visibility, vis_only, incl_groups) ==
  (IF GroupCollected(effective_visibility, vis_only, incl_groups)
   THEN <<layer_id>> ELSE <<>>)
  \o get_all_feature_layers(layerObjects[layer_id].children,
                            effective_visibility, vis_only, incl_groups)

\* lines 224-226: what one non-group layer adds to collected_layers
LeafBranch(layer_id, effective_visibility, vis_only) ==
  IF /\ IsCollectableFeatureLayer(layerObjects[layer_id])
     /\ FeatureLayerCollected(effective_visibility, vis_only)
  THEN <<layer_id>> ELSE <<>>

\* lines 204-228: the loop over `layers`
get_all_feature_layers(layers, parent_visible, vis_only, incl_groups) ==
  IF layers = <<>> THEN <<>>
  ELSE LET layer_id == Head(layers)
           layer == layerObjects[layer_id]
           effective_visibility == EffectiveVisibility(layer, parent_visible)
       IN  (IF layer.isGroupLayer
            THEN GroupBranch(layer_id, effective_visibility, vis_only, incl_groups)
            ELSE LeafBranch(layer_id, effective_visibility, vis_only))
           \o get_all_feature_layers(Tail(layers), parent_visible, vis_only, incl_groups)

\* Reading attribute `a` of the object: Python raises AttributeError when the
\* object does not have it.
AttributeErrorOn(layer, a) == a \in layer.missing

\* lines 204-228 again: whether the loop raises.  The attributes are read in
\* the order of the code: visible (line 207), isGroupLayer (209), then for a
\* group the recursion (216), for any other layer isFeatureLayer,
\* supports("dataSource") and isBasemapLayer (224), each only if the operand
\* of `and` before it was true.
RECURSIVE get_all_feature_layers_raises(_, _, _, _)
get_all_feature_layers_raises(layers, parent_visible, vis_only, incl_groups) ==
  IF layers = <<>> THEN FALSE
  ELSE LET layer == layerObjects[Head(layers)] IN
       \/ AttributeErrorOn(layer, "visible")
       \/ AttributeErrorOn(layer, "isGroupLayer")
       \/ IF layer.isGroupLayer
          THEN get_all_feature_layers_raises(layer.children,
                                             EffectiveVisibility(layer, parent_visible),
                                             vis_only, incl_groups)
          ELSE \/ AttributeErrorOn(layer, "isFeatureLayer")
               \/ /\ layer.isFeatureLayer
                  /\ layer.supportsDataSource
                  /\ AttributeErrorOn(layer, "isBasemapLayer")
       \/ get_all_feature_layers_raises(Tail(layers), parent_visible, vis_only, incl_groups)

(***************************************************************************)
(* Paths.  A path is the sequence of its characters.  clone_project uses   *)
(* os.path.dirname, os.path.abspath and os.path.normcase, whose behaviour  *)
(* depends on the platform's os.path flavour: ntpath on Windows (both "/"  *)
(* and "\" separate, normcase lower-cases and turns "/" into "\") and      *)
(* posixpath elsewhere (only "/" separates, normcase changes nothing).     *)
(***************************************************************************)
\* os.getcwd(): the working directory of the process, and on Windows the
\* drive it is on.
PosixCwd == <<"/", "w">>
NtCwdDrive == <<"C", ":">>
NtCwd == <<"\\", "w">>

\* str.lower() on one character of the model's alphabet.
LowerChar(c) ==
  CASE c = "P" -> "p"
    [] c = "E" -> "e"
    [] c = "C" -> "c"
    [] c = "N" -> "n"
    [] OTHER -> c

Separators(os) == IF os = "nt" THEN {"/", "\\"} ELSE {"/"}

\* str.split(sep) of the path at its separators: the components, empty ones kept.
RECURSIVE SplitPath(_, _)
SplitPath(path, seps) ==
  IF \A k \in 1..Len(path) : path[k] \notin seps THEN << path >>
  ELSE LET first == CHOOSE k \in 1..Len(path) :
                       /\ path[k] \in seps
                       /\ \A j \in 1..(k - 1) : path[j] \notin seps
       IN  << SubSeq(path, 1, first - 1) >>
             \o SplitPath(SubSeq(path, first + 1, Len(path)), seps)

\* sep.join(comps)
RECURSIVE JoinComps(_, _)
JoinComps(comps, sep) ==
  IF comps = <<>> THEN <<>>
  ELSE IF Len(comps) = 1 THEN comps[1]
  ELSE comps[1] \o <<sep>> \o JoinComps(Tail(comps), sep)

\* The loop of normpath over the components: "" and "." are dropped, ".."
\* removes the component before it (at the root it is dropped, at the start
\* of a relative path it is kept).
RECURSIVE CollapseComps(_, _, _)
CollapseComps(comps, new_comps, rooted) ==
  IF comps = <<>> THEN new_comps
  ELSE LET comp == Head(comps) IN
       IF comp = <<>> \/ comp = <<".">>
       THEN CollapseComps(Tail(comps), new_comps, rooted)
       ELSE IF comp # <<".", ".">>
               \/ (~rooted /\ new_comps = <<>>)
               \/ (new_comps # <<>> /\ new_comps[Len(new_comps)] = <<".", ".">>)
       THEN CollapseComps(Tail(comps), Append(new_comps, comp), rooted)
       ELSE IF new_comps # <<>>
       THEN CollapseComps(Tail(comps), SubSeq(new_comps, 1, Len(new_comps) - 1), rooted)
       ELSE CollapseComps(Tail(comps), new_comps, rooted)

\* The number of separators the path starts with.
RECURSIVE LeadingSeparators(_, _)
LeadingSeparators(path, seps) ==
  IF path = <<>> \/ Head(path) \notin seps THEN 0
  ELSE 1 + LeadingSeparators(Tail(path), seps)

\* posixpath.normpath: exactly two leading slashes are kept, any other number
\* of them is one.
PosixNormPath(path) ==
  IF path = <<>> THEN <<".">>
  ELSE LET lead == LeadingSeparators(path, {"/"})
           initial_slashes == IF lead = 2 THEN 2 ELSE IF lead > 0 THEN 1 ELSE 0
           joined == JoinComps(CollapseComps(SplitPath(path, {"/"}), <<>>, lead > 0), "/")
           result == [k \in 1..initial_slashes |-> "/"] \o joined
       IN  IF result = <<>> THEN <<".">> ELSE result

\* posixpath.abspath: a relative path is joined to the working directory.
PosixAbsPath(path) ==
  IF path # <<>> /\ Head(path) = "/" THEN PosixNormPath(path)
  ELSE PosixNormPath(PosixCwd \o <<"/">> \o path)

\* ntpath.abspath of a path that names no drive: the path is taken on the
\* current drive, from its root when it starts with a separator and from the
\* working directory otherwise, with "\" as the separator.
NtAbsPath(path) ==
  LET rooted == path # <<>> /\ Head(path) \in {"/", "\\"}
      full == IF rooted THEN path ELSE NtCwd \o <<"\\">> \o path
  IN  NtCwdDrive \o <<"\\">>
        \o JoinComps(CollapseComps(SplitPath(full, {"/", "\\"}), <<>>, TRUE), "\\")

\* ntpath.normcase: "/" becomes "\" and letters are lower-cased.
NtNormCase(path) ==
  [k \in 1..Len(path) |-> IF path[k] = "/" THEN "\\" ELSE LowerChar(path[k])]

\* os.path.dirname: everything before the last separator, with trailing
\* separators removed unless nothing else is left.
DirName(os, path) ==
  LET seps == Separators(os)
      cut == IF \E k \in 1..Len(path) : path[k] \in seps
             THEN CHOOSE k \in 1..Len(path) :
                     /\ path[k] \in seps
                     /\ \A j \in (k + 1)..Len(path) : path[j] \notin seps
             ELSE 0
      head == SubSeq(path, 1, cut)
      keep == IF \A k \in 1..Len(head) : head[k] \in seps THEN Len(head)
              ELSE CHOOSE k \in 1..Len(head) :
                      /\ head[k] \notin seps
                      /\ \A j \in (k + 1)..Len(head) : head[j] \in seps
  IN  SubSeq(head, 1, keep)

\* lines 293-295: _normalized(path) = os.path.normcase(os.path.abspath(path))
NormalizedPath(os, path) ==
  IF os = "nt" THEN NtNormCase(NtAbsPath(path)) ELSE PosixAbsPath(path)


(***************************************************************************)
(* clone_project (src/arctools.py:235-320).                                *)
(***************************************************************************)
\* The paths of the model.
TemplateAprx == <<"/", "t", "/", "t">>        \* the template project, /t/t
TemplateFolder == <<"/", "t">>
TemplateGeodatabase == <<"/", "t", "/", "d">>
StaleFolder == <<"/", "x">>                   \* a connection the template carries
TargetAprx == <<"/", "p", "/", "a">>          \* a project to create, /p/a
OtherTargetAprx == <<"/", "q", "/", "a">>     \* a project to create elsewhere, /q/a
TargetPaths == {TargetAprx, OtherTargetAprx}
TargetGeodatabase == <<"/", "p", "/", "g">>   \* its geodatabase, /p/g
NoPath == <<>>                                \* None or ""

\* What callers pass in additional_folder_connections: the empty string, the
\* folder /p, the same in upper case, its _Exports subfolder /p/e, and the
\* folder spelled through the subfolder (/p/e/..).
CandidatePaths ==
  { <<>>,
    <<"/", "p">>,
    <<"/", "P">>,
    <<"/", "p", "/", "e">>,
    <<"/", "p", "/", "e", "/", ".", ".">> }

CandidateLists == UNION { [1..n -> CandidatePaths] : n \in 0..MaxExtras }

\* A folder connection, as arcpy's folderConnections / updateFolderConnections
\* represent it.
FolderConnection(path, is_home) ==
  [connectionString |-> path, alias |-> <<>>, isHomeFolder |-> is_home]

\* The saved content of the template project.
TemplateProject ==
  [ folderConnections  |-> << FolderConnection(TemplateFolder, TRUE),
                              FolderConnection(StaleFolder, FALSE) >>,
    defaultGeodatabase |-> TemplateGeodatabase,
    homeFolder         |-> TemplateFolder ]

\* No project opened.
NoProject ==
  [ folderConnections |-> <<>>, defaultGeodatabase |-> NoPath, homeFolder |-> NoPath ]

\* line 275: saveACopy writes the template's saved content to the new path,
\* whether or not a file is there already.
FilesAfterSaveACopy(files, source, destination) ==
  [ f \in DOMAIN files \cup {destination} |->
      IF f = destination THEN files[source] ELSE files[f] ]

\* line 279: `if geodatabase_path:`
GeodatabaseRequested(path) == path # NoPath

\* line 282 without the test (the older clone_project always creates).
GeodatabaseMissingUnchecked(path) == TRUE

\* line 282: `if not os.path.exists(geodatabase_path):`
GeodatabaseMissing(path) == path \notin geodatabases

\* lines 283-284 in the opposite order: the path is assigned as the default
\* geodatabase before CreateFileGDB is called.
ProjectAfterFailedCreateAssigningFirst(project, path) ==
  [project EXCEPT !.defaultGeodatabase = path]

\* lines 283-284: CreateFileGDB (line 283) raises before line 284 is reached,
\* and nothing catches it: the opened project is as it was.
ProjectAfterFailedCreate(project, path) == project

\* The older clone_project's start of the list: the connections the project
\* already has, none of them home, then the home folder.
InitialConnectionsKeepingExisting(project, folder) ==
  [ k \in 1..Len(project.folderConnections) |->
      [ project.folderConnections[k] EXCEPT !.isHomeFolder = FALSE ] ]
    \o << FolderConnection(folder, TRUE) >>

\* lines 298-302 with the home entry taken over from the copied project.
InitialConnectionsWithCopiedHome(project, folder) ==
  SelectSeq(project.folderConnections, LAMBDA connection : connection.isHomeFolder)

\* lines 298-302: the list starts with the home folder alone.
InitialConnections(project, folder) == << FolderConnection(folder, TRUE) >>

\* line 305 without the test: empty candidates go on to line 307.
IsEmptyCandidateNeverSkipped(candidate_path) == FALSE

\* line 305: `if not candidate_path: continue`
IsEmptyCandidate(candidate_path) == candidate_path = <<>>

\* line 307 with the candidate compared as given, not normalized.
IsHomeDuplicateComparingRawPath(os, candidate_path, normalized_home) ==
  candidate_path = normalized_home

\* line 307 without the test: every non-empty candidate is appended.
IsHomeDuplicateNeverSkipped(os, candidate_path, normalized_home) == FALSE

\* line 307: `if _normalized(candidate_path) == normalized_home: continue`
IsHomeDuplicate(os, candidate_path, normalized_home) ==
  NormalizedPath(os, candidate_path) = normalized_home

\* lines 304-314: the loop over additional_folder_connections
RECURSIVE AppendCandidates(_, _, _, _)
AppendCandidates(os, connections, candidates, normalized_home) ==
  IF candidates = <<>> THEN connections
  ELSE LET candidate_path == Head(candidates) IN
       IF IsEmptyCandidate(candidate_path)
       THEN AppendCandidates(os, connections, Tail(candidates), normalized_home)
       ELSE IF IsHomeDuplicate(os, candidate_path, normalized_home)
       THEN AppendCandidates(os, connections, Tail(candidates), normalized_home)
       ELSE AppendCandidates(os, Append(connections, FolderConnection(candidate_path, FALSE)),
                             Tail(candidates), normalized_home)

\* lines 292-314: the folder connections built from scratch
BuildFolderConnections(os, project, folder, candidates) ==
  AppendCandidates(os, InitialConnections(project, folder), candidates,
                   NormalizedPath(os, folder))

(***************************************************************************)
(* The scaffolding state machine: the template project exists; a caller    *)
(* runs clone_project for the target path, step by step; when it has       *)
(* returned, the caller may run it again with the same arguments from the  *)
(* project it has just made.                                               *)
(***************************************************************************)
ClearedRun ==
  /\ template_path' = NoPath
  /\ new_project_path' = NoPath
  /\ geodatabase_path' = NoPath
  /\ additional_folder_connections' = <<>>
  /\ new_project' = NoProject
  /\ project_folder' = NoPath
  /\ folder_connections' = <<>>
  /\ geodatabasesAtCall' = {}
  /\ createFileGDBCalls' = 0
  /\ firstRunConnections' = <<>>

InitClone ==
  /\ layerObjects = <<>>
  /\ mapLayers = <<>>
  /\ layerPc = "idle"
  /\ visible_only = FALSE
  /\ include_groups = FALSE
  /\ collected_layers = <<>>
  /\ osName \in {"nt", "posix"}
  /\ aprxFiles = [f \in {TemplateAprx} |-> TemplateProject]
  /\ geodatabases \in { {TemplateGeodatabase}, {TemplateGeodatabase, TargetGeodatabase} }
  /\ clonePc = "idle"
  /\ template_path = NoPath
  /\ new_project_path = NoPath
  /\ geodatabase_path = NoPath
  /\ additional_folder_connections = <<>>
  /\ new_project = NoProject
  /\ project_folder = NoPath
  /\ folder_connections = <<>>
  /\ geodatabasesAtCall = {}
  /\ createFileGDBCalls = 0
  /\ firstRunConnections = <<>>
  /\ ToolsUnused

\* lines 235-272: clone_project is entered with its arguments.  The caller
\* scaffolds one project path (once or repeatedly), from the template.
CallCloneProject ==
  /\ clonePc = "idle"
  /\ \E target \in TargetPaths, gdb \in {NoPath, TargetGeodatabase},
        extras \in CandidateLists :
        /\ DOMAIN aprxFiles \subseteq {TemplateAprx, target}
        /\ new_project_path' = target
        /\ geodatabase_path' = gdb
        /\ additional_folder_connections' = extras
  /\ template_path' = TemplateAprx
  /\ geodatabasesAtCall' = geodatabases
  /\ createFileGDBCalls' = 0
  /\ clonePc' = "copy"
  /\ UNCHANGED <<osName, aprxFiles, geodatabases, new_project, project_folder,
                 folder_connections, firstRunConnections>>
  /\ UNCHANGED <<layerVars, toolVars>>

\* line 275: arcpy.mp.ArcGISProject(template_path).saveACopy(new_project_path)
SaveACopy ==
  /\ clonePc = "copy"
  /\ aprxFiles' = FilesAfterSaveACopy(aprxFiles, template_path, new_project_path)
  /\ clonePc' = "open"
  /\ UNCHANGED <<osName, geodatabases, template_path, new_project_path, geodatabase_path,
                 additional_folder_connections, new_project, project_folder,
                 folder_connections, geodatabasesAtCall, createFileGDBCalls,
                 firstRunConnections>>
  /\ UNCHANGED <<layerVars, toolVars>>

\* line 276: new_project = arcpy.mp.ArcGISProject(new_project_path)
OpenNewProject ==
  /\ clonePc = "open"
  /\ new_project' = aprxFiles[new_project_path]
  /\ clonePc' = "gdb"
  /\ UNCHANGED <<osName, aprxFiles, geodatabases, template_path, new_project_path,
                 geodatabase_path, additional_folder_connections, project_folder,
                 folder_connections, geodatabasesAtCall, createFileGDBCalls,
                 firstRunConnections>>
  /\ UNCHANGED <<layerVars, toolVars>>

\* line 279, no geodatabase requested: step 2 does nothing.
SkipGeodatabase ==
  /\ clonePc = "gdb"
  /\ ~GeodatabaseRequested(geodatabase_path)
  /\ clonePc' = "home"
  /\ UNCHANGED <<osName, aprxFiles, geodatabases, template_path, new_project_path,
                 geodatabase_path, additional_folder_connections, new_project,
                 project_folder, folder_connections, geodatabasesAtCall,
                 createFileGDBCalls, firstRunConnections>>
  /\ UNCHANGED <<layerVars, toolVars>>

\* lines 279-284, nothing at the path: CreateFileGDB creates the geodatabase,
\* which becomes the default geodatabase.
CreateGeodatabase ==
  /\ clonePc = "gdb"
  /\ GeodatabaseRequested(geodatabase_path)
  /\ GeodatabaseMissing(geodatabase_path)
  /\ createFileGDBCalls' = createFileGDBCalls + 1
  /\ geodatabases' = geodatabases \cup {geodatabase_path}
  /\ new_project' = [new_project EXCEPT !.defaultGeodatabase = geodatabase_path]
  /\ clonePc' = "home"
  /\ UNCHANGED <<osName, aprxFiles, template_path, new_project_path, geodatabase_path,
                 additional_folder_connections, project_folder, folder_connections,
                 geodatabasesAtCall, firstRunConnections>>
  /\ UNCHANGED <<layerVars, toolVars>>

\* line 283 raising: CreateFileGDB fails (for one, because a geodatabase is
\* already at the path) and clone_project, which catches nothing, ends there.
CreateGeodatabaseFails ==
  /\ clonePc = "gdb"
  /\ GeodatabaseRequested(geodatabase_path)
  /\ GeodatabaseMissing(geodatabase_path)
  /\ createFileGDBCalls' = createFileGDBCalls + 1
  /\ new_project' = ProjectAfterFailedCreate(new_project, geodatabase_path)
  /\ clonePc' = "raised"
  /\ UNCHANGED <<osName, aprxFiles, geodatabases, template_path, new_project_path,
                 geodatabase_path, additional_folder_connections,
                 project_folder, folder_connections, geodatabasesAtCall,
                 firstRunConnections>>
  /\ UNCHANGED <<layerVars, toolVars>>

\* lines 279-284, a geodatabase is at the path: it becomes the default
\* geodatabase and nothing is created.
ReuseGeodatabase ==
  /\ clonePc = "gdb"
  /\ GeodatabaseRequested(geodatabase_path)
  /\ ~GeodatabaseMissing(geodatabase_path)
  /\ new_project' = [new_project EXCEPT !.defaultGeodatabase = geodatabase_path]
  /\ clonePc' = "home"
  /\ UNCHANGED <<osName, aprxFiles, geodatabases, template_path, new_project_path,
                 geodatabase_path, additional_folder_connections, project_folder,
                 folder_connections, geodatabasesAtCall, createFileGDBCalls,
                 firstRunConnections>>
  /\ UNCHANGED <<layerVars, toolVars>>

\* lines 287-290: project_folder = dirname(new_project_path); homeFolder = it
SetHomeFolder ==
  /\ clonePc = "home"
  /\ project_folder' = DirName(osName, new_project_path)
  /\ new_project' = [new_project EXCEPT !.homeFolder = DirName(osName, new_project_path)]
  /\ clonePc' = "build"
  /\ UNCHANGED <<osName, aprxFiles, geodatabases, template_path, new_project_path,
                 geodatabase_path, additional_folder_connections, folder_connections,
                 geodatabasesAtCall, createFileGDBCalls, firstRunConnections>>
  /\ UNCHANGED <<layerVars, toolVars>>

\* lines 292-314: folder_connections is built
BuildConnections ==
  /\ clonePc = "build"
  /\ folder_connections' = BuildFolderConnections(osName, new_project, project_folder,
                                                  additional_folder_connections)
  /\ clonePc' = "update"
  /\ UNCHANGED <<osName, aprxFiles, geodatabases, template_path, new_project_path,
                 geodatabase_path, additional_folder_connections, new_project,
                 project_folder, geodatabasesAtCall, createFileGDBCalls,
                 firstRunConnections>>
  /\ UNCHANGED <<layerVars, toolVars>>

\* lines 317-318: updateToolboxes keeps the default toolbox;
\* updateFolderConnections(folder_connections) replaces the project's list.
UpdateFolderConnections ==
  /\ clonePc = "update"
  /\ new_project' = [new_project EXCEPT !.folderConnections = folder_connections]
  /\ clonePc' = "save"
  /\ UNCHANGED <<osName, aprxFiles, geodatabases, template_path, new_project_path,
                 geodatabase_path, additional_folder_connections, project_folder,
                 folder_connections, geodatabasesAtCall, createFileGDBCalls,
                 firstRunConnections>>
  /\ UNCHANGED <<layerVars, toolVars>>

\* line 320 without line 319: the project is returned without being saved.
SaveProjectSkippingSave ==
  /\ clonePc = "save"
  /\ clonePc' = "returned"
  /\ UNCHANGED <<osName, aprxFiles, geodatabases, template_path, new_project_path,
                 geodatabase_path, additional_folder_connections, new_project,
                 project_folder, folder_connections, geodatabasesAtCall,
                 createFileGDBCalls, firstRunConnections>>
  /\ UNCHANGED <<layerVars, toolVars>>

\* lines 319-320: new_project.save(); return new_project
SaveProject ==
  /\ clonePc = "save"
  /\ aprxFiles' = [aprxFiles EXCEPT ![new_project_path] = new_project]
  /\ clonePc' = "returned"
  /\ UNCHANGED <<osName, geodatabases, template_path, new_project_path, geodatabase_path,
                 additional_folder_connections, new_project, project_folder,
                 folder_connections, geodatabasesAtCall, createFileGDBCalls,
                 firstRunConnections>>
  /\ UNCHANGED <<layerVars, toolVars>>

\* The caller is done with the returned project.
FinishRun ==
  /\ clonePc = "returned"
  /\ clonePc' = "idle"
  /\ ClearedRun
  /\ UNCHANGED <<osName, aprxFiles, geodatabases>>
  /\ UNCHANGED <<layerVars, toolVars>>

\* The caller has seen the exception.
FinishFailedRun ==
  /\ clonePc = "raised"
  /\ clonePc' = "idle"
  /\ ClearedRun
  /\ UNCHANGED <<osName, aprxFiles, geodatabases>>
  /\ UNCHANGED <<layerVars, toolVars>>

\* The caller runs clone_project once more, with the same project path, the
\* same geodatabase and the same additional_folder_connections, taking the
\* project just made as the template.
CallCloneProjectAgain ==
  /\ clonePc = "returned"
  /\ firstRunConnections = <<>>
  /\ firstRunConnections' = new_project.folderConnections
  /\ template_path' = new_project_path
  /\ geodatabasesAtCall' = geodatabases
  /\ createFileGDBCalls' = 0
  /\ new_project' = NoProject
  /\ project_folder' = NoPath
  /\ folder_connections' = <<>>
  /\ clonePc' = "copy"
  /\ UNCHANGED <<osName, aprxFiles, geodatabases, new_project_path, geodatabase_path,
                 additional_folder_connections>>
  /\ UNCHANGED <<layerVars, toolVars>>

NextClone ==
  \/ CallCloneProject
  \/ SaveACopy
  \/ OpenNewProject
  \/ SkipGeodatabase
  \/ CreateGeodatabase
  \/ CreateGeodatabaseFails
  \/ ReuseGeodatabase
  \/ SetHomeFolder
  \/ BuildConnections
  \/ UpdateFolderConnections
  \/ SaveProject
  \/ FinishRun
  \/ FinishFailedRun
  \/ CallCloneProjectAgain


(***************************************************************************)
(* The layer-filter state machine: a map is given, a caller runs the       *)
(* traversal on it with some options and gets the list back.               *)
(***************************************************************************)
InitLayers ==
  /\ osName = "posix"
  /\ aprxFiles = [f \in {TemplateAprx} |-> TemplateProject]
  /\ geodatabases = {TemplateGeodatabase}
  /\ clonePc = "idle"
  /\ template_path = NoPath
  /\ new_project_path = NoPath
  /\ geodatabase_path = NoPath
  /\ additional_folder_connections = <<>>
  /\ new_project = NoProject
  /\ project_folder = NoPath
  /\ folder_connections = <<>>
  /\ geodatabasesAtCall = {}
  /\ createFileGDBCalls = 0
  /\ firstRunConnections = <<>>
  /\ \E n \in 0..MaxNodes :
       \E parent \in ForestShapes(n) :
          \E props \in [1..n -> LayerProperties] :
             LET forest == [i \in 1..n |-> [parent |-> parent[i], props |-> props[i]]]
             IN  /\ IsForest(forest)
                 /\ layerObjects = LayerTable(forest)
                 /\ mapLayers = ChildrenOf(forest, 0)
  /\ layerPc = "idle"
  /\ visible_only = FALSE
  /\ include_groups = FALSE
  /\ collected_layers = <<>>
  /\ ToolsUnused

\* A caller runs get_all_feature_layers(map.listLayers(), visible_only=vo,
\* include_groups=ig); parent_visible keeps its default, True.
CallGetAllFeatureLayers ==
  /\ layerPc = "idle"
  /\ \E vo \in BOOLEAN, ig \in BOOLEAN :
        /\ ~get_all_feature_layers_raises(mapLayers, TRUE, vo, ig)
        /\ visible_only' = vo
        /\ include_groups' = ig
        /\ collected_layers' = get_all_feature_layers(mapLayers, TRUE, vo, ig)
  /\ layerPc' = "returned"
  /\ UNCHANGED <<layerObjects, mapLayers>>
  /\ UNCHANGED <<cloneVars, toolVars>>

\* The same call on a map with an object that lacks an attribute the loop
\* reads: the AttributeError leaves get_all_feature_layers, which catches
\* nothing, and no list is returned.
GetAllFeatureLayersRaises ==
  /\ layerPc = "idle"
  /\ \E vo \in BOOLEAN, ig \in BOOLEAN :
        /\ get_all_feature_layers_raises(mapLayers, TRUE, vo, ig)
        /\ visible_only' = vo
        /\ include_groups' = ig
  /\ collected_layers' = <<>>
  /\ layerPc' = "raised"
  /\ UNCHANGED <<layerObjects, mapLayers>>
  /\ UNCHANGED <<cloneVars, toolVars>>

\* The caller has seen the exception.
SeeLayerError ==
  /\ layerPc = "raised"
  /\ layerPc' = "idle"
  /\ visible_only' = FALSE
  /\ include_groups' = FALSE
  /\ collected_layers' = <<>>
  /\ UNCHANGED <<layerObjects, mapLayers>>
  /\ UNCHANGED <<cloneVars, toolVars>>

\* The caller drops the list; the map is as it was.
DiscardLayerList ==
  /\ layerPc = "returned"
  /\ layerPc' = "idle"
  /\ visible_only' = FALSE
  /\ include_groups' = FALSE
  /\ collected_layers' = <<>>
  /\ UNCHANGED <<layerObjects, mapLayers>>
  /\ UNCHANGED <<cloneVars, toolVars>>

NextLayers ==
  \/ CallGetAllFeatureLayers
  \/ DiscardLayerList

SpecLayers == InitLayers /\ [][NextLayers]_vars

(***************************************************************************)
(* get_visible_feature_layers (src/_Scripts/ExportToExcel.py:5-24), the    *)
(* older traversal, run on the same map as get_all_feature_layers.         *)
(***************************************************************************)
\* bool(value) of a Boolean attribute
Bool(value) == value = TRUE

\* line 13 without the inherited flag: the layer's own flag alone.
LegacyLayerVisibleIgnoringParent(layer, parent_visible) == Bool(layer.visible)

\* line 13: lyr_visible = bool(lyr.visible) and parent_visible
LegacyLayerVisible(layer, parent_visible) == Bool(layer.visible) /\ parent_visible

\* line 22: the test on a layer that is not a group
LegacyLayerIncluded(layer, lyr_visible) ==
  lyr_visible /\ layer.isFeatureLayer /\ layer.supportsDataSource

\* lines 11-24: the loop over `layers`
RECURSIVE get_visible_feature_layers(_, _)
get_visible_feature_layers(layers, parent_visible) ==
  IF layers = <<>> THEN <<>>
  ELSE LET lyr_id == Head(layers)
           lyr == layerObjects[lyr_id]
           lyr_visible == LegacyLayerVisible(lyr, parent_visible)
       IN  (IF lyr.isGroupLayer
            THEN get_visible_feature_layers(lyr.children, lyr_visible)
            ELSE IF LegacyLayerIncluded(lyr, lyr_visible) THEN <<lyr_id>> ELSE <<>>)
           \o get_visible_feature_layers(Tail(layers), parent_visible)

\* The maps of the comparison: Layers of the host application, none of them
\* a basemap layer.
NonBasemapLayerProperties == { f \in LayerProperties : ~f.isBasemapLayer }

InitLegacyLayers ==
  /\ osName = "posix"
  /\ aprxFiles = [f \in {TemplateAprx} |-> TemplateProject]
  /\ geodatabases = {TemplateGeodatabase}
  /\ clonePc = "idle"
  /\ template_path = NoPath
  /\ new_project_path = NoPath
  /\ geodatabase_path = NoPath
  /\ additional_folder_connections = <<>>
  /\ new_project = NoProject
  /\ project_folder = NoPath
  /\ folder_connections = <<>>
  /\ geodatabasesAtCall = {}
  /\ createFileGDBCalls = 0
  /\ firstRunConnections = <<>>
  /\ FoldersUnused
  /\ BundleUnused
  /\ NamesUnused
  /\ ExportUnused
  /\ \E n \in 0..MaxNodes :
       \E parent \in ForestShapes(n) :
          \E props \in [1..n -> NonBasemapLayerProperties] :
             LET forest == [i \in 1..n |-> [parent |-> parent[i], props |-> props[i]]]
             IN  /\ IsForest(forest)
                 /\ layerObjects = LayerTable(forest)
                 /\ mapLayers = ChildrenOf(forest, 0)
  /\ layerPc = "idle"
  /\ visible_only = FALSE
  /\ include_groups = FALSE
  /\ collected_layers = <<>>
  /\ legacyPc = "idle"
  /\ visible_layers = <<>>

\* line 32 of the older script: a caller runs
\* get_visible_feature_layers(map.listLayers()); parent_visible keeps its
\* default, True.
CallGetVisibleFeatureLayers ==
  /\ legacyPc = "idle"
  /\ visible_layers' = get_visible_feature_layers(mapLayers, TRUE)
  /\ legacyPc' = "returned"
  /\ UNCHANGED <<layerVars, cloneVars, folderVars, bundleVars, nameVars, exportVars>>

\* The caller drops the list; the map is as it was.
DiscardLegacyList ==
  /\ legacyPc = "returned"
  /\ legacyPc' = "idle"
  /\ visible_layers' = <<>>
  /\ UNCHANGED <<layerVars, cloneVars, folderVars, bundleVars, nameVars, exportVars>>

NextLegacyLayers ==
  \/ CallGetAllFeatureLayers
  \/ DiscardLayerList
  \/ CallGetVisibleFeatureLayers
  \/ DiscardLegacyList

SpecLegacyLayers == InitLegacyLayers /\ [][NextLegacyLayers]_vars

\* The same state machine on maps of layer-like objects, some of which lack
\* an attribute.
InitLayersPartial ==
  /\ osName = "posix"
  /\ aprxFiles = [f \in {TemplateAprx} |-> TemplateProject]
  /\ geodatabases = {TemplateGeodatabase}
  /\ clonePc = "idle"
  /\ template_path = NoPath
  /\ new_project_path = NoPath
  /\ geodatabase_path = NoPath
  /\ additional_folder_connections = <<>>
  /\ new_project = NoProject
  /\ project_folder = NoPath
  /\ folder_connections = <<>>
  /\ geodatabasesAtCall = {}
  /\ createFileGDBCalls = 0
  /\ firstRunConnections = <<>>
  /\ \E n \in 0..MaxPartialNodes :
       \E parent \in ForestShapes(n) :
          \E props \in [1..n -> PartialLayerProperties] :
             LET forest == [i \in 1..n |-> [parent |-> parent[i], props |-> props[i]]]
             IN  /\ IsForest(forest)
                 /\ layerObjects = LayerTable(forest)
                 /\ mapLayers = ChildrenOf(forest, 0)
  /\ layerPc = "idle"
  /\ visible_only = FALSE
  /\ include_groups = FALSE
  /\ collected_layers = <<>>
  /\ ToolsUnused

NextLayersPartial ==
  \/ CallGetAllFeatureLayers
  \/ GetAllFeatureLayersRaises
  \/ DiscardLayerList
  \/ SeeLayerError

SpecLayersPartial == InitLayersPartial /\ [][NextLayersPartial]_vars

SpecClone == InitClone /\ [][NextClone]_vars

(***************************************************************************)
(* The older clone_project(template_path, new_path, gdb_path=None,         *)
(* add_folders=[]) of src/_Scripts/arcgis_utils.py:50-67, step by step in  *)
(* the same scaffolding.  It hands the opened project, not its path, to    *)
(* os.path.dirname (line 55); it calls CreateFileGDB whenever gdb_path is  *)
(* given; it never sets homeFolder; it keeps the copied project's          *)
(* connections and appends the home folder and every entry of add_folders. *)
(***************************************************************************)
\* lines 61-64 of the older file: the connections the project has, none of
\* them home, then the home folder, then every entry of add_folders.
LegacyFolders(project, proj_folder, add_folders) ==
  [ k \in 1..Len(project.folderConnections) |->
      [ project.folderConnections[k] EXCEPT !.isHomeFolder = FALSE ] ]
    \o << FolderConnection(proj_folder, TRUE) >>
    \o [ k \in 1..Len(add_folders) |-> FolderConnection(add_folders[k], FALSE) ]

\* line 50 of the older file: clone_project is entered with its arguments.
\* The caller scaffolds one project, from the template, at a path where no
\* project is yet.
CallLegacyCloneProject ==
  /\ clonePc = "idle"
  /\ \E target \in TargetPaths, gdb \in {NoPath, TargetGeodatabase},
        extras \in CandidateLists :
        /\ DOMAIN aprxFiles = {TemplateAprx}
        /\ new_project_path' = target
        /\ geodatabase_path' = gdb
        /\ additional_folder_connections' = extras
  /\ template_path' = TemplateAprx
  /\ geodatabasesAtCall' = geodatabases
  /\ createFileGDBCalls' = 0
  /\ clonePc' = "copy"
  /\ UNCHANGED <<osName, aprxFiles, geodatabases, new_project, project_folder,
                 folder_connections, firstRunConnections>>
  /\ UNCHANGED <<layerVars, toolVars>>

\* lines 51-52 of the older file: the template is saved to the new path
LegacySaveACopy ==
  /\ clonePc = "copy"
  /\ aprxFiles' = FilesAfterSaveACopy(aprxFiles, template_path, new_project_path)
  /\ clonePc' = "open"
  /\ UNCHANGED <<osName, geodatabases, template_path, new_project_path,
                 geodatabase_path, additional_folder_connections, new_project,
                 project_folder, folder_connections, geodatabasesAtCall,
                 createFileGDBCalls, firstRunConnections>>
  /\ UNCHANGED <<layerVars, toolVars>>

\* line 54 of the older file: aprx = arcpy.mp.ArcGISProject(new_path)
LegacyOpenNewProject ==
  /\ clonePc = "open"
  /\ new_project' = aprxFiles[new_project_path]
  /\ clonePc' = "folder"
  /\ UNCHANGED <<osName, aprxFiles, geodatabases, template_path, new_project_path,
                 geodatabase_path, additional_folder_connections, project_folder,
                 folder_connections, geodatabasesAtCall, createFileGDBCalls,
                 firstRunConnections>>
  /\ UNCHANGED <<layerVars, toolVars>>

\* line 55 of the older file, get_project_folder(aprx): os.path.dirname of
\* an object that is neither a string nor path-like raises TypeError, which
\* nothing catches.  The copy of line 52 stays on disk.
LegacyProjectFolderRaises ==
  /\ clonePc = "folder"
  /\ clonePc' = "raised"
  /\ UNCHANGED <<osName, aprxFiles, geodatabases, template_path, new_project_path,
                 geodatabase_path, additional_folder_connections, new_project,
                 project_folder, folder_connections, geodatabasesAtCall,
                 createFileGDBCalls, firstRunConnections>>
  /\ UNCHANGED <<layerVars, toolVars>>

\* line 55 of the older file on a host whose project object is path-like
\* (os.fspath gives its file path): proj_folder is the directory of the new
\* project.
LegacyProjectFolder ==
  /\ clonePc = "folder"
  /\ project_folder' = DirName(osName, new_project_path)
  /\ clonePc' = "gdb"
  /\ UNCHANGED <<osName, aprxFiles, geodatabases, template_path, new_project_path,
                 geodatabase_path, additional_folder_connections, new_project,
                 folder_connections, geodatabasesAtCall, createFileGDBCalls,
                 firstRunConnections>>
  /\ UNCHANGED <<layerVars, toolVars>>

\* line 57 of the older file, gdb_path not given: lines 58-59 are skipped.
LegacySkipGeodatabase ==
  /\ clonePc = "gdb"
  /\ ~GeodatabaseRequested(geodatabase_path)
  /\ clonePc' = "build"
  /\ UNCHANGED <<osName, aprxFiles, geodatabases, template_path, new_project_path,
                 geodatabase_path, additional_folder_connections, new_project,
                 project_folder, folder_connections, geodatabasesAtCall,
                 createFileGDBCalls, firstRunConnections>>
  /\ UNCHANGED <<layerVars, toolVars>>

\* lines 57-59 of the older file: CreateFileGDB is called whether or not a
\* geodatabase is at the path and does not raise (it created one, or the
\* host replaced the one that was there); gdb_path becomes the default
\* geodatabase.
LegacyCreateGeodatabase ==
  /\ clonePc = "gdb"
  /\ GeodatabaseRequested(geodatabase_path)
  /\ createFileGDBCalls' = createFileGDBCalls + 1
  /\ geodatabases' = geodatabases \cup {geodatabase_path}
  /\ new_project' = [new_project EXCEPT !.defaultGeodatabase = geodatabase_path]
  /\ clonePc' = "build"
  /\ UNCHANGED <<osName, aprxFiles, template_path, new_project_path, geodatabase_path,
                 additional_folder_connections, project_folder, folder_connections,
                 geodatabasesAtCall, firstRunConnections>>
  /\ UNCHANGED <<layerVars, toolVars>>

\* line 58 of the older file raising (for one, because a geodatabase is at
\* the path): line 59 is not reached and nothing catches the exception.
LegacyCreateGeodatabaseFails ==
  /\ clonePc = "gdb"
  /\ GeodatabaseRequested(geodatabase_path)
  /\ createFileGDBCalls' = createFileGDBCalls + 1
  /\ clonePc' = "raised"
  /\ UNCHANGED <<osName, aprxFiles, geodatabases, template_path, new_project_path,
                 geodatabase_path, additional_folder_connections, new_project,
                 project_folder, folder_connections, geodatabasesAtCall,
                 firstRunConnections>>
  /\ UNCHANGED <<layerVars, toolVars>>

\* lines 61-64 of the older file: the list `folders` is built
LegacyBuildConnections ==
  /\ clonePc = "build"
  /\ folder_connections' = LegacyFolders(new_project, project_folder,
                                         additional_folder_connections)
  /\ clonePc' = "update"
  /\ UNCHANGED <<osName, aprxFiles, geodatabases, template_path, new_project_path,
                 geodatabase_path, additional_folder_connections, new_project,
                 project_folder, geodatabasesAtCall, createFileGDBCalls,
                 firstRunConnections>>
  /\ UNCHANGED <<layerVars, toolVars>>

\* line 65 of the older file: aprx.updateFolderConnections(folders)
LegacyUpdateFolderConnections ==
  /\ clonePc = "update"
  /\ new_project' = [new_project EXCEPT !.folderConnections = folder_connections]
  /\ clonePc' = "save"
  /\ UNCHANGED <<osName, aprxFiles, geodatabases, template_path, new_project_path,
                 geodatabase_path, additional_folder_connections, project_folder,
                 folder_connections, geodatabasesAtCall, createFileGDBCalls,
                 firstRunConnections>>
  /\ UNCHANGED <<layerVars, toolVars>>

\* lines 66-67 of the older file: aprx.save(); return aprx
LegacySaveProject ==
  /\ clonePc = "save"
  /\ aprxFiles' = [aprxFiles EXCEPT ![new_project_path] = new_project]
  /\ clonePc' = "returned"
  /\ UNCHANGED <<osName, geodatabases, template_path, new_project_path,
                 geodatabase_path, additional_folder_connections, new_project,
                 project_folder, folder_connections, geodatabasesAtCall,
                 createFileGDBCalls, firstRunConnections>>
  /\ UNCHANGED <<layerVars, toolVars>>

NextLegacyClone ==
  \/ CallLegacyCloneProject
  \/ LegacySaveACopy
  \/ LegacyOpenNewProject
  \/ LegacyProjectFolderRaises
  \/ LegacyProjectFolder
  \/ LegacySkipGeodatabase
  \/ LegacyCreateGeodatabase
  \/ LegacyCreateGeodatabaseFails
  \/ LegacyBuildConnections
  \/ LegacyUpdateFolderConnections
  \/ LegacySaveProject
  \/ FinishRun
  \/ FinishFailedRun

SpecLegacyClone == InitClone /\ [][NextLegacyClone]_vars

(***************************************************************************)
(* create_project_folders (src/arctools.py:127-167).                       *)
(***************************************************************************)
\* The state of clone_project's part when no behaviour exercises it.
CloneUnused ==
  /\ aprxFiles = [f \in {TemplateAprx} |-> TemplateProject]
  /\ geodatabases = {TemplateGeodatabase}
  /\ clonePc = "idle"
  /\ template_path = NoPath
  /\ new_project_path = NoPath
  /\ geodatabase_path = NoPath
  /\ additional_folder_connections = <<>>
  /\ new_project = NoProject
  /\ project_folder = NoPath
  /\ folder_connections = <<>>
  /\ geodatabasesAtCall = {}
  /\ createFileGDBCalls = 0
  /\ firstRunConnections = <<>>

\* os.path.join(a, b) for paths that name no drive: b alone when it starts
\* at the root, otherwise a and b with one separator between them unless a
\* is empty or ends with a separator already.
JoinPath(os, a, b) ==
  IF b # <<>> /\ Head(b) \in Separators(os) THEN b
  ELSE IF a = <<>> \/ a[Len(a)] \in Separators(os) THEN a \o b
  ELSE a \o << (IF os = "nt" THEN "\\" ELSE "/") >> \o b

\* The literal of line 164.
ExportsName == <<"_", "E", "x", "p", "o", "r", "t", "s">>

\* A rooted path and the paths of the directories above it, up to the root.
RECURSIVE PathAndParents(_, _)
PathAndParents(os, path) ==
  IF DirName(os, path) = path THEN {path}
  ELSE {path} \cup PathAndParents(os, DirName(os, path))

\* The directory itself and the directories above it, by normalized path
\* (on Windows the normalized path starts with the drive, which is no
\* directory of its own).
WithAncestors(os, path) ==
  LET key == NormalizedPath(os, path)
      drive == IF os = "nt" THEN SubSeq(key, 1, Len(NtCwdDrive)) ELSE <<>>
      rooted == SubSeq(key, Len(drive) + 1, Len(key))
  IN  { drive \o q : q \in PathAndParents(os, rooted) }

\* os.path.exists(path)
PathExists(os, path) == NormalizedPath(os, path) \in directories \cup plainFiles

\* os.makedirs called with exist_ok=True whatever the caller passes: an
\* existing directory is accepted.
MakeDirsRaisesOnFilesOnly(os, path, exist_ok) ==
  NormalizedPath(os, path) \in plainFiles

\* os.makedirs(path) / os.makedirs(path, exist_ok=True): it raises
\* FileExistsError when something is at the path, unless that is a
\* directory and exist_ok is set.
MakeDirsRaises(os, path, exist_ok) ==
  \/ NormalizedPath(os, path) \in plainFiles
  \/ NormalizedPath(os, path) \in directories /\ ~exist_ok

\* os.makedirs(path) that does not raise: the directory and every missing
\* directory above it exist afterwards.
DirectoriesAfterMakeDirs(os, dirs, path) == dirs \cup WithAncestors(os, path)

\* line 164 left out (the older create_project_folders called with
\* include_exports=False).
DirectoriesAfterExportsNotIncluded(os, dirs, folder) == dirs

\* line 164: os.makedirs(os.path.join(project_folder, "_Exports"), exist_ok=True)
DirectoriesAfterExports(os, dirs, folder) ==
  DirectoriesAfterMakeDirs(os, dirs, JoinPath(os, folder, ExportsName))

\* The arguments callers pass: the Projects root /r, also written with a
\* trailing separator, and the project names n and N.
ProjectsRoots == { <<"/", "r">>, <<"/", "r", "/">> }
ProjectNames == { <<"n">>, <<"N">> }

\* The disk before any call: the root directory; perhaps the Projects root;
\* perhaps a project folder n (with or without its _Exports) or a file n.
RootDirectory(os) == NormalizedPath(os, <<"/">>)

InitialDisks(os) ==
  LET root == RootDirectory(os)
      r == NormalizedPath(os, <<"/", "r">>)
      n == NormalizedPath(os, <<"/", "r", "/", "n">>)
      e == NormalizedPath(os, JoinPath(os, <<"/", "r", "/", "n">>, ExportsName))
  IN  { [dirs |-> {root}, files |-> {}],
        [dirs |-> {root, r}, files |-> {}],
        [dirs |-> {root, r, n}, files |-> {}],
        [dirs |-> {root, r, n, e}, files |-> {}],
        [dirs |-> {root, r}, files |-> {n}] }

InitFolders ==
  /\ LayersUnused
  /\ CloneUnused
  /\ LegacyUnused
  /\ osName \in {"nt", "posix"}
  /\ \E disk \in InitialDisks(osName) :
        /\ directories = disk.dirs
        /\ plainFiles = disk.files
  /\ folderCalls = [c \in Callers |-> IdleFolderCall]
  /\ BundleUnused
  /\ NamesUnused
  /\ ExportUnused

\* The literal of line 30 of the older file.
BackupsName == <<".", "b", "a", "c", "k", "u", "p", "s">>

\* os.mkdir(path) that does not raise: the one directory is made.
DirectoriesAfterMkdir(os, dirs, path) == dirs \cup {NormalizedPath(os, path)}

\* line 30 of the older file:
\* os.makedirs(os.path.join(proj_folder, ".backups"), exist_ok=True)
DirectoriesAfterBackups(os, dirs, folder) ==
  DirectoriesAfterMakeDirs(os, dirs, JoinPath(os, folder, BackupsName))

\* The function is entered with the arguments; its first line computes
\* os.path.join(projects_root, project_name).
EnterFolderCall(c, module, root, name, include_exports) ==
  folderCalls' = [folderCalls EXCEPT ![c] =
     [ pc |-> "check", module |-> module, projects_root |-> root, project_name |-> name,
       include_exports |-> include_exports,
       project_folder |-> JoinPath(osName, root, name), returned |-> <<>>,
       directoriesAtCall |-> directories,
       existedAtCall |-> PathExists(osName, JoinPath(osName, root, name)),
       raisedAt |-> 0 ]]

\* `if os.path.exists(project_folder): raise FileExistsError`, the raise
\* being on line `line`.
ExistenceCheckStep(c, line) ==
  /\ folderCalls[c].pc = "check"
  /\ folderCalls' =
        IF PathExists(osName, folderCalls[c].project_folder)
        THEN [folderCalls EXCEPT ![c].pc = "raised", ![c].raisedAt = line]
        ELSE [folderCalls EXCEPT ![c].pc = "makedirs"]
  /\ UNCHANGED <<directories, plainFiles>>

\* os.makedirs(project_folder), its first system call: os.path.exists of
\* the directory above the folder, which is made first when it is missing.
MakeDirsLooksAtParentStep(c) ==
  /\ folderCalls[c].pc = "makedirs"
  /\ folderCalls' = [folderCalls EXCEPT ![c].pc =
        IF PathExists(osName, DirName(osName, folderCalls[c].project_folder))
        THEN "mkdir" ELSE "mkparent"]
  /\ UNCHANGED <<directories, plainFiles>>

\* os.makedirs(project_folder), the recursive call for the missing
\* directory above the folder: it is made, and a FileExistsError (another
\* process has made it meanwhile) is swallowed.  The directory above that
\* one is the root on every disk here, so this is one mkdir.
MakeDirsMakesParentStep(c) ==
  /\ folderCalls[c].pc = "mkparent"
  /\ directories' = DirectoriesAfterMakeDirs(osName, directories,
                                              DirName(osName, folderCalls[c].project_folder))
  /\ folderCalls' = [folderCalls EXCEPT ![c].pc = "mkdir"]
  /\ UNCHANGED plainFiles

\* os.makedirs(project_folder), its last system call: mkdir of the folder
\* itself, which raises FileExistsError (exist_ok is not set) out of the
\* function, whose line is `line`, when something is at the path.
MakeDirsMakesFolderStep(c, line) ==
  /\ folderCalls[c].pc = "mkdir"
  /\ IF MakeDirsRaises(osName, folderCalls[c].project_folder, FALSE)
     THEN /\ folderCalls' = [folderCalls EXCEPT ![c].pc = "raised", ![c].raisedAt = line]
          /\ UNCHANGED directories
     ELSE /\ folderCalls' = [folderCalls EXCEPT ![c].pc = "exports"]
          /\ directories' = DirectoriesAfterMkdir(osName, directories,
                                                   folderCalls[c].project_folder)
  /\ UNCHANGED plainFiles

\* lines 127-158: create_project_folders(projects_root, project_name) is
\* entered; line 158 computes project_folder.  Everyone gets _Exports.
CallCreateProjectFolders(c) ==
  /\ folderCalls[c].pc = "idle"
  /\ \E root \in ProjectsRoots, name \in ProjectNames :
        EnterFolderCall(c, "arctools", root, name, TRUE)
  /\ UNCHANGED <<directories, plainFiles>>
  /\ UNCHANGED outsideFolders

\* lines 160-161: `if os.path.exists(project_folder): raise FileExistsError`
CheckProjectFolder(c) ==
  /\ folderCalls[c].module = "arctools"
  /\ ExistenceCheckStep(c, 161)
  /\ UNCHANGED outsideFolders

\* line 163, os.makedirs(project_folder): is the directory above there?
MakeDirsLooksAtParent(c) ==
  /\ folderCalls[c].module = "arctools"
  /\ MakeDirsLooksAtParentStep(c)
  /\ UNCHANGED outsideFolders

\* line 163, os.makedirs(project_folder): the missing directory above is made
MakeDirsMakesParent(c) ==
  /\ folderCalls[c].module = "arctools"
  /\ MakeDirsMakesParentStep(c)
  /\ UNCHANGED outsideFolders

\* line 163, os.makedirs(project_folder): the folder itself is made
MakeProjectFolder(c) ==
  /\ folderCalls[c].module = "arctools"
  /\ MakeDirsMakesFolderStep(c, 163)
  /\ UNCHANGED outsideFolders

\* lines 164-167: the _Exports subfolder is made; return project_folder
MakeExportsFolderAndReturn(c) ==
  /\ folderCalls[c].module = "arctools"
  /\ folderCalls[c].pc = "exports"
  /\ IF MakeDirsRaises(osName, JoinPath(osName, folderCalls[c].project_folder, ExportsName),
                       TRUE)
     THEN /\ folderCalls' = [folderCalls EXCEPT ![c].pc = "raised", ![c].raisedAt = 164]
          /\ UNCHANGED directories
     ELSE /\ folderCalls' = [folderCalls EXCEPT ![c].pc = "returned",
                                                ![c].returned = folderCalls[c].project_folder]
          /\ directories' = DirectoriesAfterExports(osName, directories,
                                                     folderCalls[c].project_folder)
  /\ UNCHANGED plainFiles
  /\ UNCHANGED outsideFolders

\* The caller has the folder path, or has seen the FileExistsError.
FinishFolderCall(c) ==
  /\ folderCalls[c].pc \in {"returned", "raised"}
  /\ folderCalls' = [folderCalls EXCEPT ![c] = IdleFolderCall]
  /\ UNCHANGED <<directories, plainFiles>>
  /\ UNCHANGED outsideFolders

(***************************************************************************)
(* The older create_project_folders(projects_root, name,                   *)
(* include_exports=True) of src/_Scripts/arcgis_utils.py:23-31: the same   *)
(* check and os.makedirs, then _Exports only if include_exports, then      *)
(* .backups always.                                                        *)
(***************************************************************************)
\* lines 23-24 of the older file: the function is entered; include_exports
\* is passed or keeps its default.
CallLegacyCreateProjectFolders(c) ==
  /\ folderCalls[c].pc = "idle"
  /\ \E root \in ProjectsRoots, name \in ProjectNames, include_exports \in BOOLEAN :
        EnterFolderCall(c, "arcgis_utils", root, name, include_exports)
  /\ UNCHANGED <<directories, plainFiles>>
  /\ UNCHANGED outsideFolders

\* lines 25-26 of the older file
LegacyCheckProjectFolder(c) ==
  /\ folderCalls[c].module = "arcgis_utils"
  /\ ExistenceCheckStep(c, 26)
  /\ UNCHANGED outsideFolders

\* line 27 of the older file, os.makedirs(proj_folder): is the directory
\* above there?
LegacyMakeDirsLooksAtParent(c) ==
  /\ folderCalls[c].module = "arcgis_utils"
  /\ MakeDirsLooksAtParentStep(c)
  /\ UNCHANGED outsideFolders

\* line 27 of the older file: the missing directory above is made
LegacyMakeDirsMakesParent(c) ==
  /\ folderCalls[c].module = "arcgis_utils"
  /\ MakeDirsMakesParentStep(c)
  /\ UNCHANGED outsideFolders

\* line 27 of the older file: the folder itself is made
LegacyMakeProjectFolder(c) ==
  /\ folderCalls[c].module = "arcgis_utils"
  /\ MakeDirsMakesFolderStep(c, 27)
  /\ UNCHANGED outsideFolders

\* lines 28-29 of the older file: _Exports is made if include_exports
LegacyMakeExportsFolder(c) ==
  /\ folderCalls[c].module = "arcgis_utils"
  /\ folderCalls[c].pc = "exports"
  /\ IF ~folderCalls[c].include_exports
     THEN /\ folderCalls' = [folderCalls EXCEPT ![c].pc = "backups"]
          /\ UNCHANGED directories
     ELSE IF MakeDirsRaises(osName,
                            JoinPath(osName, folderCalls[c].project_folder, ExportsName),
                            TRUE)
     THEN /\ folderCalls' = [folderCalls EXCEPT ![c].pc = "raised", ![c].raisedAt = 29]
          /\ UNCHANGED directories
     ELSE /\ folderCalls' = [folderCalls EXCEPT ![c].pc = "backups"]
          /\ directories' = DirectoriesAfterExports(osName, directories,
                                                     folderCalls[c].project_folder)
  /\ UNCHANGED plainFiles
  /\ UNCHANGED outsideFolders

\* lines 30-31 of the older file: .backups is made; return proj_folder
LegacyMakeBackupsFolderAndReturn(c) ==
  /\ folderCalls[c].module = "arcgis_utils"
  /\ folderCalls[c].pc = "backups"
  /\ IF MakeDirsRaises(osName, JoinPath(osName, folderCalls[c].project_folder, BackupsName),
                       TRUE)
     THEN /\ folderCalls' = [folderCalls EXCEPT ![c].pc = "raised", ![c].raisedAt = 30]
          /\ UNCHANGED directories
     ELSE /\ folderCalls' = [folderCalls EXCEPT ![c].pc = "returned",
                                                ![c].returned = folderCalls[c].project_folder]
          /\ directories' = DirectoriesAfterBackups(osName, directories,
                                                     folderCalls[c].project_folder)
  /\ UNCHANGED plainFiles
  /\ UNCHANGED outsideFolders

\* One caller at a time: the tool is run by one operator, who calls either
\* function.
FirstCaller == 1

NextFolders ==
  \/ CallCreateProjectFolders(FirstCaller)
  \/ CheckProjectFolder(FirstCaller)
  \/ MakeDirsLooksAtParent(FirstCaller)
  \/ MakeDirsMakesParent(FirstCaller)
  \/ MakeProjectFolder(FirstCaller)
  \/ MakeExportsFolderAndReturn(FirstCaller)
  \/ CallLegacyCreateProjectFolders(FirstCaller)
  \/ LegacyCheckProjectFolder(FirstCaller)
  \/ LegacyMakeDirsLooksAtParent(FirstCaller)
  \/ LegacyMakeDirsMakesParent(FirstCaller)
  \/ LegacyMakeProjectFolder(FirstCaller)
  \/ LegacyMakeExportsFolder(FirstCaller)
  \/ LegacyMakeBackupsFolderAndReturn(FirstCaller)
  \/ FinishFolderCall(FirstCaller)

SpecFolders == InitFolders /\ [][NextFolders]_vars

\* Two callers (two ArcGIS Pro sessions on the shared Projects root) of the
\* function of src/arctools.py, whose calls interleave system call by system
\* call: nothing in lines 158-167 locks the folder.  os.path.exists is one
\* system call; os.makedirs is one mkdir per directory it makes.
SecondCaller == 2

NextFoldersInterleaved ==
  \/ CallCreateProjectFolders(FirstCaller)
  \/ CheckProjectFolder(FirstCaller)
  \/ MakeDirsLooksAtParent(FirstCaller)
  \/ MakeDirsMakesParent(FirstCaller)
  \/ MakeProjectFolder(FirstCaller)
  \/ MakeExportsFolderAndReturn(FirstCaller)
  \/ FinishFolderCall(FirstCaller)
  \/ CallCreateProjectFolders(SecondCaller)
  \/ CheckProjectFolder(SecondCaller)
  \/ MakeDirsLooksAtParent(SecondCaller)
  \/ MakeDirsMakesParent(SecondCaller)
  \/ MakeProjectFolder(SecondCaller)
  \/ MakeExportsFolderAndReturn(SecondCaller)
  \/ FinishFolderCall(SecondCaller)

SpecFoldersInterleaved == InitFolders /\ [][NextFoldersInterleaved]_vars

(***************************************************************************)
(* make_contractor_bundle (src/MakeContractorBundle.py:39-147), from the   *)
(* point where the project has been cloned (line 91): the project folder   *)
(* is new (create_project_folders raised otherwise), so the geodatabase    *)
(* made by clone_project holds no feature class yet.  The tool runs inside *)
(* ArcGIS Pro, on Windows.                                                 *)
(***************************************************************************)
\* The names layers carry; two layers of a map may carry the same name.
BundleLayerNames == { <<"a">>, <<"b">> }

\* The layers of the map: visible_only is not set (line 100), so the visible
\* flags play no part and are all true here.
BundleLayerProperties == { f \in LayerProperties : f.visible }

\* The data sources of the template's layers: feature classes a and b of a
\* geodatabase d, and a file a.s (a shapefile) in the folder d.
DefaultDataSource == <<"d", "\\", "a">>
BundleDataSources == { DefaultDataSource, <<"d", "\\", "b">>, <<"d", "\\", "a", ".", "s">> }

\* line 112: os.path.join(new_geodatabase_path, feature_layer.name)
OutputFeatureClassPath(name) == JoinPath("nt", TargetGeodatabase, name)

\* lines 116-120: arcpy.analysis.Clip raises when its output exists and the
\* environment does not allow overwriting.
ClipRaisesOn(path) == path \in DOMAIN featureClasses /\ ~overwriteOutput

\* lines 116-120: the geodatabase after Clip has written the result of
\* `layer_id` at `path` (replacing what was there).
AfterClip(classes, path, layer_id) ==
  [ q \in DOMAIN classes \cup {path} |->
      IF q = path THEN [source |-> layer_id, features |-> clipFeatureCounts[layer_id]]
      ELSE classes[q] ]

\* line 131: arcpy.management.Delete(path)
AfterDelete(classes, path) == [ q \in DOMAIN classes \ {path} |-> classes[q] ]

InitBundle ==
  /\ CloneUnused
  /\ LegacyUnused
  /\ FoldersUnused
  /\ NamesUnused
  /\ ExportUnused
  /\ osName = "nt"
  /\ \E n \in 0..MaxBundleNodes :
       \E parent \in ForestShapes(n) :
          \E props \in [1..n -> BundleLayerProperties] :
             LET forest == [i \in 1..n |-> [parent |-> parent[i], props |-> props[i]]]
             IN  /\ IsForest(forest)
                 /\ layerObjects = LayerTable(forest)
                 /\ mapLayers = ChildrenOf(forest, 0)
                 /\ layersInMap = 1..n
                 /\ layerNames \in [1..n -> BundleLayerNames]
                 \* the output name is taken from the layer's name alone
                 /\ dataSources = [i \in 1..n |-> DefaultDataSource]
                 /\ supportsName = [i \in 1..n |-> TRUE]
                 /\ clipFeatureCounts \in [1..n -> {0, 1}]
                 \* a layer that is never clipped: one name, no count
                 /\ \A i \in 1..n :
                       ~IsCollectableFeatureLayer(props[i])
                          => (layerNames[i] = <<"a">> /\ clipFeatureCounts[i] = 0)
  /\ layerPc = "idle"
  /\ visible_only = FALSE
  /\ include_groups = FALSE
  /\ collected_layers = <<>>
  /\ overwriteOutput \in BOOLEAN
  /\ bundlePc = "collect"
  /\ feature_layers = <<>>
  /\ clipIndex = 1
  /\ featureClasses = <<>>
  /\ output_paths_to_add = <<>>
  /\ original_layers_to_remove = <<>>
  /\ addedLayers = <<>>

\* lines 94-109: the first map's layers are collected with visible_only=False
\* and include_groups=False; the two lists start empty.
CollectFeatureLayers ==
  /\ bundlePc = "collect"
  /\ feature_layers' = get_all_feature_layers(mapLayers, TRUE, FALSE, FALSE)
  /\ clipIndex' = 1
  /\ output_paths_to_add' = <<>>
  /\ original_layers_to_remove' = <<>>
  /\ bundlePc' = "clip"
  /\ UNCHANGED <<overwriteOutput, layerNames, dataSources, supportsName, clipFeatureCounts, featureClasses,
                 layersInMap, addedLayers>>
  /\ UNCHANGED outsideBundle

\* lines 111-120, Clip raising: make_contractor_bundle catches nothing.
ClipRaises ==
  /\ bundlePc = "clip"
  /\ clipIndex <= Len(feature_layers)
  /\ ClipRaisesOn(OutputFeatureClassPath(layerNames[feature_layers[clipIndex]]))
  /\ bundlePc' = "raised"
  /\ UNCHANGED <<overwriteOutput, layerNames, dataSources, supportsName, clipFeatureCounts, feature_layers, clipIndex,
                 featureClasses, output_paths_to_add, original_layers_to_remove,
                 layersInMap, addedLayers>>
  /\ UNCHANGED outsideBundle

\* lines 111-128, one round of the loop with a result that has features
ClipKeepsResult ==
  /\ bundlePc = "clip"
  /\ clipIndex <= Len(feature_layers)
  /\ LET feature_layer == feature_layers[clipIndex]
         output_feature_class_path == OutputFeatureClassPath(layerNames[feature_layer])
     IN  /\ ~ClipRaisesOn(output_feature_class_path)
         /\ clipFeatureCounts[feature_layer] > 0
         /\ featureClasses' = AfterClip(featureClasses, output_feature_class_path,
                                        feature_layer)
         /\ original_layers_to_remove' = Append(original_layers_to_remove, feature_layer)
         /\ output_paths_to_add' = Append(output_paths_to_add, output_feature_class_path)
  /\ clipIndex' = clipIndex + 1
  /\ UNCHANGED <<overwriteOutput, layerNames, dataSources, supportsName, clipFeatureCounts, bundlePc, feature_layers,
                 layersInMap, addedLayers>>
  /\ UNCHANGED outsideBundle

\* lines 111-131, one round of the loop with an empty result, which is deleted
ClipDeletesEmptyResult ==
  /\ bundlePc = "clip"
  /\ clipIndex <= Len(feature_layers)
  /\ LET feature_layer == feature_layers[clipIndex]
         output_feature_class_path == OutputFeatureClassPath(layerNames[feature_layer])
     IN  /\ ~ClipRaisesOn(output_feature_class_path)
         /\ ~(clipFeatureCounts[feature_layer] > 0)
         /\ featureClasses' =
               AfterDelete(AfterClip(featureClasses, output_feature_class_path,
                                     feature_layer),
                           output_feature_class_path)
         /\ original_layers_to_remove' = Append(original_layers_to_remove, feature_layer)
  /\ clipIndex' = clipIndex + 1
  /\ UNCHANGED <<overwriteOutput, layerNames, dataSources, supportsName, clipFeatureCounts, bundlePc, feature_layers,
                 output_paths_to_add, layersInMap, addedLayers>>
  /\ UNCHANGED outsideBundle

\* lines 134-135: every path of output_paths_to_add is added to the map
AddOutputsToMap ==
  /\ bundlePc = "clip"
  /\ clipIndex > Len(feature_layers)
  /\ \A k \in 1..Len(output_paths_to_add) : output_paths_to_add[k] \in DOMAIN featureClasses
  /\ addedLayers' = addedLayers \o output_paths_to_add
  /\ bundlePc' = "remove"
  /\ UNCHANGED <<overwriteOutput, layerNames, dataSources, supportsName, clipFeatureCounts, feature_layers, clipIndex,
                 featureClasses, output_paths_to_add, original_layers_to_remove,
                 layersInMap>>
  /\ UNCHANGED outsideBundle

\* lines 134-135, addDataFromPath raising on a path at which nothing is (any
\* more): the paths before it have been added.
AddOutputsRaises ==
  /\ bundlePc = "clip"
  /\ clipIndex > Len(feature_layers)
  /\ \E k \in 1..Len(output_paths_to_add) :
        /\ output_paths_to_add[k] \notin DOMAIN featureClasses
        /\ \A j \in 1..(k - 1) : output_paths_to_add[j] \in DOMAIN featureClasses
        /\ addedLayers' = addedLayers \o SubSeq(output_paths_to_add, 1, k - 1)
  /\ bundlePc' = "raised"
  /\ UNCHANGED <<overwriteOutput, layerNames, dataSources, supportsName, clipFeatureCounts, feature_layers, clipIndex,
                 featureClasses, output_paths_to_add, original_layers_to_remove,
                 layersInMap>>
  /\ UNCHANGED outsideBundle

\* lines 138-139: every layer of original_layers_to_remove is removed
RemoveOriginals ==
  /\ bundlePc = "remove"
  /\ layersInMap' = layersInMap \ { original_layers_to_remove[k] :
                                      k \in 1..Len(original_layers_to_remove) }
  /\ bundlePc' = "save"
  /\ UNCHANGED <<overwriteOutput, layerNames, dataSources, supportsName, clipFeatureCounts, feature_layers, clipIndex,
                 featureClasses, output_paths_to_add, original_layers_to_remove,
                 addedLayers>>
  /\ UNCHANGED outsideBundle

\* lines 142-147: new_project.save(); the function completes
SaveBundle ==
  /\ bundlePc = "save"
  /\ bundlePc' = "done"
  /\ UNCHANGED <<overwriteOutput, layerNames, dataSources, supportsName, clipFeatureCounts, feature_layers, clipIndex,
                 featureClasses, output_paths_to_add, original_layers_to_remove,
                 layersInMap, addedLayers>>
  /\ UNCHANGED outsideBundle

NextBundle ==
  \/ CollectFeatureLayers
  \/ ClipRaises
  \/ ClipKeepsResult
  \/ ClipDeletesEmptyResult
  \/ AddOutputsToMap
  \/ AddOutputsRaises
  \/ RemoveOriginals
  \/ SaveBundle

SpecBundle == InitBundle /\ [][NextBundle]_vars

(***************************************************************************)
(* The older make_contractor_bundle (src/_Scripts/MakeContractorBundle.py: *)
(* 19-87).  It makes the project folder, the copy of the template and the  *)
(* geodatabase itself (lines 33-55), calling no helper.  The output of     *)
(* each clip is named after the layer's data source and made unique in the *)
(* geodatabase, and every result is added to the map at once, empty or     *)
(* not.                                                                    *)
(***************************************************************************)
\* lines 6-17 of the older script: its own get_all_feature_layers(layers),
\* which also asks for supports("NAME") and takes no options.
RECURSIVE script_get_all_feature_layers(_)
script_get_all_feature_layers(layers) ==
  IF layers = <<>> THEN <<>>
  ELSE LET layer_id == Head(layers)
           layer == layerObjects[layer_id]
       IN  (IF layer.isGroupLayer
            THEN script_get_all_feature_layers(layer.children)
            ELSE IF /\ layer.isFeatureLayer
                    /\ layer.supportsDataSource
                    /\ supportsName[layer_id]
                    /\ ~layer.isBasemapLayer
                 THEN <<layer_id>> ELSE <<>>)
           \o script_get_all_feature_layers(Tail(layers))

\* os.path.basename (ntpath): what follows the last separator.
BaseName(os, path) ==
  LET seps == Separators(os)
      cuts == { k \in 1..Len(path) : path[k] \in seps }
      last == IF cuts = {} THEN 0 ELSE CHOOSE k \in cuts : \A j \in cuts : j <= k
  IN  SubSeq(path, last + 1, Len(path))

\* os.path.splitext(name)[0] of a name without separators: the name up to
\* its last dot, unless only dots stand before that dot.
SplitExtRoot(name) ==
  LET dots == { k \in 1..Len(name) : name[k] = "." }
      last == IF dots = {} THEN 0 ELSE CHOOSE k \in dots : \A j \in dots : j <= k
  IN  IF last > 0 /\ \E j \in 1..(last - 1) : name[j] # "."
      THEN SubSeq(name, 1, last - 1)
      ELSE name

\* line 64: base_name = os.path.splitext(os.path.basename(layer.dataSource))[0]
OutputBaseName(layer_id) == SplitExtRoot(BaseName("nt", dataSources[layer_id]))

\* The decimal digit of a small number.
Digit(k) == <<"0", "1", "2", "3", "4", "5", "6", "7", "8", "9">>[k + 1]

\* line 65: arcpy.CreateUniqueName(base_name, project_gdb_path), as the
\* comment of that line describes it: the name itself if it is free in the
\* workspace, otherwise the name with the first of the suffixes _1, _2, ...
\* that makes it free.
CreateUniqueName(base_name, workspace, classes) ==
  LET plain == JoinPath("nt", workspace, base_name)
      suffixed(k) == JoinPath("nt", workspace, base_name \o <<"_", Digit(k)>>)
  IN  IF plain \notin DOMAIN classes THEN plain
      ELSE suffixed(CHOOSE k \in 1..9 :
                       /\ suffixed(k) \notin DOMAIN classes
                       /\ \A j \in 1..(k - 1) : suffixed(j) \in DOMAIN classes)

\* line 34 of the older script: projects_root_directory (C:\GIS\Projects,
\* here \r on the current drive)
ProjectsRootDirectory == <<"\\", "r">>

\* line 33 of the older script: contractor_template_aprx, the template
\* project in its folder under the Projects root
ContractorTemplateAprx == <<"\\", "r", "\\", "t", "\\", "t">>

\* line 35 of the older script: datetime.now().strftime("%Y%m%d")
BundleToday == <<"2", "0", "2", "5", "0", "8", "2", "7">>

\* line 36 of the older script: f"{today}_{project_name}", nothing sanitized
BundleFullProjectName(name) == BundleToday \o <<"_">> \o name

\* line 37 of the older script: project_folder
BundleProjectFolder(name) ==
  JoinPath("nt", ProjectsRootDirectory, BundleFullProjectName(name))

\* line 38 of the older script: project_aprx_path
BundleProjectAprxPath(name) ==
  JoinPath("nt", BundleProjectFolder(name),
           BundleFullProjectName(name) \o <<".", "a", "p", "r", "x">>)

\* lines 39-40 of the older script: project_gdb_path
BundleProjectGdbPath(name) ==
  JoinPath("nt", BundleProjectFolder(name),
           BundleFullProjectName(name) \o <<".", "g", "d", "b">>)

\* The project names typed by the operator.
BundleProjectNames == { <<"n">>, <<"N">> }

\* The disk before the run: the Projects root with the template's folder;
\* perhaps today's folder of project n is there already, or a file of that
\* name.
BundleDisks ==
  LET base == { RootDirectory("nt"),
                NormalizedPath("nt", ProjectsRootDirectory),
                NormalizedPath("nt", DirName("nt", ContractorTemplateAprx)) }
      n == NormalizedPath("nt", BundleProjectFolder(<<"n">>))
  IN  { [dirs |-> base, files |-> {}],
        [dirs |-> base \cup {n}, files |-> {}],
        [dirs |-> base, files |-> {n}] }

InitLegacyBundle ==
  /\ LegacyUnused
  /\ ExportUnused
  /\ osName = "nt"
  /\ aprxFiles = [f \in {ContractorTemplateAprx} |-> TemplateProject]
  /\ geodatabases = {TemplateGeodatabase}
  /\ clonePc = "idle"
  /\ template_path = NoPath
  /\ new_project_path = NoPath
  /\ geodatabase_path = NoPath
  /\ additional_folder_connections = <<>>
  /\ new_project = NoProject
  /\ project_folder = NoPath
  /\ folder_connections = <<>>
  /\ geodatabasesAtCall = {}
  /\ createFileGDBCalls = 0
  /\ firstRunConnections = <<>>
  /\ \E disk \in BundleDisks :
        /\ directories = disk.dirs
        /\ plainFiles = disk.files
  /\ folderCalls = [c \in Callers |-> IdleFolderCall]
  /\ namePc = "idle"
  /\ custom_prefix = <<>>
  /\ project_name \in BundleProjectNames
  /\ safe_prefix = <<>>
  /\ sanitized_base_name = <<>>
  /\ full_project_name = <<>>
  /\ \E n \in 0..MaxBundleNodes :
       \E parent \in ForestShapes(n) :
          \E props \in [1..n -> BundleLayerProperties] :
             LET forest == [i \in 1..n |-> [parent |-> parent[i], props |-> props[i]]]
             IN  /\ IsForest(forest)
                 /\ layerObjects = LayerTable(forest)
                 /\ mapLayers = ChildrenOf(forest, 0)
                 /\ layersInMap = 1..n
                 \* the layer's name goes into a message only (line 67)
                 /\ layerNames = [i \in 1..n |-> <<"a">>]
                 /\ dataSources \in [1..n -> BundleDataSources]
                 /\ supportsName \in [1..n -> BOOLEAN]
                 /\ clipFeatureCounts \in [1..n -> {0, 1}]
                 \* a layer that is never clipped: one data source, no count
                 /\ \A i \in 1..n :
                       ~(IsCollectableFeatureLayer(props[i]) /\ supportsName[i])
                          => (dataSources[i] = DefaultDataSource /\ clipFeatureCounts[i] = 0)
                 /\ \A i \in 1..n :
                       ~IsCollectableFeatureLayer(props[i]) => supportsName[i]
  /\ layerPc = "idle"
  /\ visible_only = FALSE
  /\ include_groups = FALSE
  /\ collected_layers = <<>>
  /\ overwriteOutput \in BOOLEAN
  /\ bundlePc = "start"
  /\ feature_layers = <<>>
  /\ clipIndex = 1
  /\ featureClasses = <<>>
  /\ output_paths_to_add = <<>>
  /\ original_layers_to_remove = <<>>
  /\ addedLayers = <<>>

\* lines 33-44 of the older script: the names and paths are composed; if
\* something is at the project folder's path the script reports it and
\* raises FileExistsError.
LegacyBundleCheckFolder ==
  /\ bundlePc = "start"
  /\ full_project_name' = BundleFullProjectName(project_name)
  /\ template_path' = ContractorTemplateAprx
  /\ project_folder' = BundleProjectFolder(project_name)
  /\ new_project_path' = BundleProjectAprxPath(project_name)
  /\ geodatabase_path' = BundleProjectGdbPath(project_name)
  /\ bundlePc' = IF PathExists("nt", BundleProjectFolder(project_name))
                 THEN "raised" ELSE "makedirs"
  /\ UNCHANGED <<osName, aprxFiles, geodatabases, additional_folder_connections,
                 new_project, folder_connections, geodatabasesAtCall,
                 createFileGDBCalls, firstRunConnections, directories, plainFiles,
                 folderCalls, overwriteOutput, layerNames, dataSources, supportsName,
                 clipFeatureCounts, feature_layers, clipIndex, featureClasses,
                 output_paths_to_add, original_layers_to_remove, layersInMap,
                 addedLayers, namePc, custom_prefix, project_name, safe_prefix,
                 sanitized_base_name>>
  /\ UNCHANGED <<clonePc, layerVars, exportVars, legacyVars>>

\* line 45 of the older script: os.makedirs(project_folder); the Projects
\* root above it is there, so this is one mkdir.  No _Exports is made.
LegacyBundleMakeFolder ==
  /\ bundlePc = "makedirs"
  /\ IF MakeDirsRaises("nt", project_folder, FALSE)
     THEN /\ bundlePc' = "raised"
          /\ UNCHANGED directories
     ELSE /\ bundlePc' = "copy"
          /\ directories' = DirectoriesAfterMakeDirs("nt", directories, project_folder)
  /\ UNCHANGED <<osName, aprxFiles, geodatabases, template_path, new_project_path,
                 geodatabase_path, additional_folder_connections, new_project,
                 project_folder, folder_connections, geodatabasesAtCall,
                 createFileGDBCalls, firstRunConnections, plainFiles, folderCalls,
                 overwriteOutput, layerNames, dataSources, supportsName,
                 clipFeatureCounts, feature_layers, clipIndex, featureClasses,
                 output_paths_to_add, original_layers_to_remove, layersInMap,
                 addedLayers, namePc, custom_prefix, project_name, safe_prefix,
                 sanitized_base_name, full_project_name>>
  /\ UNCHANGED <<clonePc, layerVars, exportVars, legacyVars>>

\* lines 47-49 of the older script: the template is opened and saved to
\* project_aprx_path
LegacyBundleSaveACopy ==
  /\ bundlePc = "copy"
  /\ aprxFiles' = FilesAfterSaveACopy(aprxFiles, template_path, new_project_path)
  /\ bundlePc' = "gdb"
  /\ UNCHANGED <<osName, geodatabases, template_path, new_project_path,
                 geodatabase_path, additional_folder_connections, new_project,
                 project_folder, folder_connections, geodatabasesAtCall,
                 createFileGDBCalls, firstRunConnections, directories, plainFiles,
                 folderCalls, overwriteOutput, layerNames, dataSources, supportsName,
                 clipFeatureCounts, feature_layers, clipIndex, featureClasses,
                 output_paths_to_add, original_layers_to_remove, layersInMap,
                 addedLayers, namePc, custom_prefix, project_name, safe_prefix,
                 sanitized_base_name, full_project_name>>
  /\ UNCHANGED <<clonePc, layerVars, exportVars, legacyVars>>

\* lines 51-52 of the older script: CreateFileGDB(project_folder,
\* project_gdb_name), with no look at what is there
LegacyBundleCreateGeodatabase ==
  /\ bundlePc = "gdb"
  /\ createFileGDBCalls' = createFileGDBCalls + 1
  /\ geodatabases' = geodatabases \cup {geodatabase_path}
  /\ bundlePc' = "open"
  /\ UNCHANGED <<osName, aprxFiles, template_path, new_project_path, geodatabase_path,
                 additional_folder_connections, new_project, project_folder,
                 folder_connections, geodatabasesAtCall, firstRunConnections,
                 directories, plainFiles, folderCalls, overwriteOutput, layerNames,
                 dataSources, supportsName, clipFeatureCounts, feature_layers,
                 clipIndex, featureClasses, output_paths_to_add,
                 original_layers_to_remove, layersInMap, addedLayers, namePc,
                 custom_prefix, project_name, safe_prefix, sanitized_base_name,
                 full_project_name>>
  /\ UNCHANGED <<clonePc, layerVars, exportVars, legacyVars>>

\* line 52 of the older script raising: the script catches nothing; the
\* folder and the copy stay on disk.
LegacyBundleCreateGeodatabaseFails ==
  /\ bundlePc = "gdb"
  /\ createFileGDBCalls' = createFileGDBCalls + 1
  /\ bundlePc' = "raised"
  /\ UNCHANGED <<osName, aprxFiles, geodatabases, template_path, new_project_path,
                 geodatabase_path, additional_folder_connections, new_project,
                 project_folder, folder_connections, geodatabasesAtCall,
                 firstRunConnections, directories, plainFiles, folderCalls,
                 overwriteOutput, layerNames, dataSources, supportsName,
                 clipFeatureCounts, feature_layers, clipIndex, featureClasses,
                 output_paths_to_add, original_layers_to_remove, layersInMap,
                 addedLayers, namePc, custom_prefix, project_name, safe_prefix,
                 sanitized_base_name, full_project_name>>
  /\ UNCHANGED <<clonePc, layerVars, exportVars, legacyVars>>

\* lines 54-55 of the older script: the copy is opened and its
\* defaultGeodatabase set, in memory
LegacyBundleOpenCopy ==
  /\ bundlePc = "open"
  /\ new_project' = [aprxFiles[new_project_path] EXCEPT
                       !.defaultGeodatabase = geodatabase_path]
  /\ bundlePc' = "collect"
  /\ UNCHANGED <<osName, aprxFiles, geodatabases, template_path, new_project_path,
                 geodatabase_path, additional_folder_connections, project_folder,
                 folder_connections, geodatabasesAtCall, createFileGDBCalls,
                 firstRunConnections, directories, plainFiles, folderCalls,
                 overwriteOutput, layerNames, dataSources, supportsName,
                 clipFeatureCounts, feature_layers, clipIndex, featureClasses,
                 output_paths_to_add, original_layers_to_remove, layersInMap,
                 addedLayers, namePc, custom_prefix, project_name, safe_prefix,
                 sanitized_base_name, full_project_name>>
  /\ UNCHANGED <<clonePc, layerVars, exportVars, legacyVars>>

\* lines 56-61 of the older script: the first map's layers are collected
\* and layers_to_remove starts empty.
LegacyCollectFeatureLayers ==
  /\ bundlePc = "collect"
  /\ feature_layers' = script_get_all_feature_layers(mapLayers)
  /\ clipIndex' = 1
  /\ original_layers_to_remove' = <<>>
  /\ bundlePc' = "clip"
  /\ UNCHANGED <<overwriteOutput, layerNames, dataSources, supportsName, clipFeatureCounts,
                 featureClasses, output_paths_to_add, layersInMap, addedLayers>>
  /\ UNCHANGED outsideBundle

\* lines 63-76 of the older script, one round of the loop: the unique
\* output name, the clip, the layer marked for removal, the result added to
\* the map whatever its feature count.
LegacyClipAndAdd ==
  /\ bundlePc = "clip"
  /\ clipIndex <= Len(feature_layers)
  /\ LET layer == feature_layers[clipIndex]
         output_feature_class == CreateUniqueName(OutputBaseName(layer), geodatabase_path,
                                                  featureClasses)
     IN  /\ ~ClipRaisesOn(output_feature_class)
         /\ featureClasses' = AfterClip(featureClasses, output_feature_class, layer)
         /\ original_layers_to_remove' = Append(original_layers_to_remove, layer)
         /\ addedLayers' = Append(addedLayers, output_feature_class)
  /\ clipIndex' = clipIndex + 1
  /\ UNCHANGED <<overwriteOutput, layerNames, dataSources, supportsName, clipFeatureCounts,
                 bundlePc, feature_layers, output_paths_to_add, layersInMap>>
  /\ UNCHANGED outsideBundle

\* lines 79-80 of the older script: every layer of layers_to_remove is removed
LegacyRemoveOriginals ==
  /\ bundlePc = "clip"
  /\ clipIndex > Len(feature_layers)
  /\ layersInMap' = layersInMap \ { original_layers_to_remove[k] :
                                      k \in 1..Len(original_layers_to_remove) }
  /\ bundlePc' = "save"
  /\ UNCHANGED <<overwriteOutput, layerNames, dataSources, supportsName, clipFeatureCounts,
                 feature_layers, clipIndex, featureClasses, output_paths_to_add,
                 original_layers_to_remove, addedLayers>>
  /\ UNCHANGED outsideBundle

\* lines 82-87 of the older script: aprx.save() writes the opened copy, with
\* the defaultGeodatabase of line 55, to its file; the function completes
LegacySaveBundle ==
  /\ bundlePc = "save"
  /\ aprxFiles' = [aprxFiles EXCEPT ![new_project_path] = new_project]
  /\ bundlePc' = "done"
  /\ UNCHANGED <<osName, geodatabases, template_path, new_project_path,
                 geodatabase_path, additional_folder_connections, new_project,
                 project_folder, folder_connections, geodatabasesAtCall,
                 createFileGDBCalls, firstRunConnections, directories, plainFiles,
                 folderCalls, overwriteOutput, layerNames, dataSources, supportsName,
                 clipFeatureCounts, feature_layers, clipIndex, featureClasses,
                 output_paths_to_add, original_layers_to_remove, layersInMap,
                 addedLayers, namePc, custom_prefix, project_name, safe_prefix,
                 sanitized_base_name, full_project_name>>
  /\ UNCHANGED <<clonePc, layerVars, exportVars, legacyVars>>

NextLegacyBundle ==
  \/ LegacyBundleCheckFolder
  \/ LegacyBundleMakeFolder
  \/ LegacyBundleSaveACopy
  \/ LegacyBundleCreateGeodatabase
  \/ LegacyBundleCreateGeodatabaseFails
  \/ LegacyBundleOpenCopy
  \/ LegacyCollectFeatureLayers
  \/ LegacyClipAndAdd
  \/ LegacyRemoveOriginals
  \/ LegacySaveBundle

SpecLegacyBundle == InitLegacyBundle /\ [][NextLegacyBundle]_vars

(***************************************************************************)
(* make_new_project, the composition of the project name                   *)
(* (src/MakeNewProject.py:52-68).  A text is the sequence of its           *)
(* characters.                                                             *)
(***************************************************************************)
\* The characters typed: a letter, the underscore, a blank, and a character
\* that is invalid in a file name.
NameCharacters == {"a", "_", " ", ":"}

TypedTexts == UNION { [1..n -> NameCharacters] : n \in 0..MaxNameLen }

\* line 53: the characters of the class [\\/:*?"<>|]
InvalidFilenameChars == {"\\", "/", ":", "*", "?", "\"", "<", ">", "|"}

\* str.strip(): leading and trailing whitespace is removed.
RECURSIVE LStripBlanks(_)
LStripBlanks(text) ==
  IF text # <<>> /\ Head(text) = " " THEN LStripBlanks(Tail(text)) ELSE text

RECURSIVE RStripBlanks(_)
RStripBlanks(text) ==
  IF text # <<>> /\ text[Len(text)] = " "
  THEN RStripBlanks(SubSeq(text, 1, Len(text) - 1)) ELSE text

Strip(text) == RStripBlanks(LStripBlanks(text))

\* re.sub(invalid_filename_chars, "", text)
RemoveInvalidChars(text) == SelectSeq(text, LAMBDA ch : ch \notin InvalidFilenameChars)

\* str.rstrip("_")
RECURSIVE RStripUnderscores(_)
RStripUnderscores(text) ==
  IF text # <<>> /\ text[Len(text)] = "_"
  THEN RStripUnderscores(SubSeq(text, 1, Len(text) - 1)) ELSE text

\* line 59: datetime.now().strftime("%Y%m%d"), eight digits
TodayPrefix == <<"2", "0", "2", "5", "0", "8", "2", "7">>

\* lines 56-59: raw_prefix
RawPrefix(prefix) ==
  IF prefix # <<>> /\ Strip(prefix) # <<>>
  THEN RemoveInvalidChars(Strip(prefix))
  ELSE TodayPrefix

\* line 62: safe_prefix = raw_prefix.rstrip("_")
SafePrefix(prefix) == RStripUnderscores(RawPrefix(prefix))

\* line 65: sanitized_base_name
SanitizedBaseName(name) == RemoveInvalidChars(Strip(name))

\* line 68: full_project_name = f"{safe_prefix}_{sanitized_base_name}"
FullProjectName(prefix, base) == prefix \o <<"_">> \o base

InitNames ==
  /\ LayersUnused
  /\ CloneUnused
  /\ LegacyUnused
  /\ osName = "nt"
  /\ FoldersUnused
  /\ BundleUnused
  /\ ExportUnused
  /\ namePc = "typed"
  /\ custom_prefix \in TypedTexts
  /\ project_name \in TypedTexts
  /\ safe_prefix = <<>>
  /\ sanitized_base_name = <<>>
  /\ full_project_name = <<>>

\* lines 55-62: the prefix is determined
DeterminePrefix ==
  /\ namePc = "typed"
  /\ safe_prefix' = SafePrefix(custom_prefix)
  /\ namePc' = "prefixed"
  /\ UNCHANGED <<custom_prefix, project_name, sanitized_base_name, full_project_name>>
  /\ UNCHANGED outsideNames

\* lines 64-68: the base name is sanitized and the final name composed
ComposeFinalName ==
  /\ namePc = "prefixed"
  /\ sanitized_base_name' = SanitizedBaseName(project_name)
  /\ full_project_name' = FullProjectName(safe_prefix, SanitizedBaseName(project_name))
  /\ namePc' = "composed"
  /\ UNCHANGED <<custom_prefix, project_name, safe_prefix>>
  /\ UNCHANGED outsideNames

NextNames ==
  \/ DeterminePrefix
  \/ ComposeFinalName

SpecNames == InitNames /\ [][NextNames]_vars

(***************************************************************************)
(* export_tables_to_excel (src/ExportToExcel.py:25-90), from the point     *)
(* where the visible feature layers have been collected and the writer     *)
(* created (line 52).  Every write goes to the one sheet; DataFrame        *)
(* .to_excel(writer, startrow=r, index=False) puts the header on row r and *)
(* the data rows below it, and with header=False the data rows from row r. *)
(***************************************************************************)
\* How the export of a layer goes: without an exception; with an exception
\* before anything is written (lines 57-67: dataSource, ListFields,
\* SearchCursor, DataFrame); with an exception while the table is written
\* (lines 79-83), after the label row.
ExportOutcomes == {"exported", "fails reading", "fails writing"}

ExportLayerInputs == [rows : 0..MaxTableRows, outcome : ExportOutcomes]

\* The rows to_excel writes for a table of n data rows.
TableRows(n) == <<"header">> \o [k \in 1..n |-> "data"]

\* The sheet after the rows `kinds` of layer `layer_index` were written from
\* row `startrow` down (a row written again is replaced).
AfterToExcel(cells, startrow, kinds, layer_index) ==
  [ r \in DOMAIN cells \cup startrow..(startrow + Len(kinds) - 1) |->
      IF r \in startrow..(startrow + Len(kinds) - 1)
      THEN [layer |-> layer_index, kind |-> kinds[r - startrow + 1]]
      ELSE cells[r] ]

\* line 84: next_row_index += len(dataframe) + 1, after the += 1 of line 76
NextRowIndexAfter(row_index, table_length) == row_index + 1 + table_length + 1

InitExport ==
  /\ LayersUnused
  /\ CloneUnused
  /\ LegacyUnused
  /\ osName = "nt"
  /\ FoldersUnused
  /\ BundleUnused
  /\ NamesUnused
  /\ \E n \in 0..MaxExportLayers : exportLayers \in [1..n -> ExportLayerInputs]
  /\ exportPc = "loop"
  /\ exportIndex = 1
  /\ next_row_index = 0
  /\ sheet = <<>>
  /\ warnings = <<>>
  /\ writerCloses = 0

\* lines 54-84, one round of the loop without an exception: the label row,
\* then the table
ExportLayer ==
  /\ exportPc = "loop"
  /\ exportIndex <= Len(exportLayers)
  /\ exportLayers[exportIndex].outcome = "exported"
  /\ sheet' = AfterToExcel(AfterToExcel(sheet, next_row_index, <<"label">>, exportIndex),
                           next_row_index + 1,
                           TableRows(exportLayers[exportIndex].rows), exportIndex)
  /\ next_row_index' = NextRowIndexAfter(next_row_index, exportLayers[exportIndex].rows)
  /\ exportIndex' = exportIndex + 1
  /\ UNCHANGED <<exportLayers, exportPc, warnings, writerCloses>>
  /\ UNCHANGED outsideExport

\* lines 57-67 raising and lines 86-87: nothing of the layer is written, a
\* warning is added, the loop goes on.
ExportLayerFailsReading ==
  /\ exportPc = "loop"
  /\ exportIndex <= Len(exportLayers)
  /\ exportLayers[exportIndex].outcome = "fails reading"
  /\ warnings' = Append(warnings, exportIndex)
  /\ exportIndex' = exportIndex + 1
  /\ UNCHANGED <<exportLayers, exportPc, next_row_index, sheet, writerCloses>>
  /\ UNCHANGED outsideExport

\* lines 70-83 raising in the second to_excel and lines 86-87: the label row
\* is written and counted (line 76), some rows of the table may be written,
\* line 84 is not reached; a warning is added, the loop goes on.
ExportLayerFailsWriting ==
  /\ exportPc = "loop"
  /\ exportIndex <= Len(exportLayers)
  /\ exportLayers[exportIndex].outcome = "fails writing"
  /\ \E written \in 0..exportLayers[exportIndex].rows :
        sheet' = AfterToExcel(AfterToExcel(sheet, next_row_index, <<"label">>, exportIndex),
                              next_row_index + 1,
                              SubSeq(TableRows(exportLayers[exportIndex].rows), 1, written),
                              exportIndex)
  /\ next_row_index' = next_row_index + 1
  /\ warnings' = Append(warnings, exportIndex)
  /\ exportIndex' = exportIndex + 1
  /\ UNCHANGED <<exportLayers, exportPc, writerCloses>>
  /\ UNCHANGED outsideExport

\* line 89: writer.close(), after the loop, saves the workbook; some
\* to_excel call has made the sheet
CloseWriter ==
  /\ exportPc = "loop"
  /\ exportIndex > Len(exportLayers)
  /\ DOMAIN sheet # {}
  /\ writerCloses' = writerCloses + 1
  /\ exportPc' = "close"
  /\ UNCHANGED <<exportLayers, exportIndex, next_row_index, sheet, warnings>>
  /\ UNCHANGED outsideExport

\* line 89 raising: no to_excel call has written anything (the list is
\* empty, or every layer failed before its label row), so the workbook has
\* no sheet and the openpyxl engine refuses to save it (IndexError, "At
\* least one sheet must be visible").  The call stands outside the try
\* block of lines 55-87: the exception leaves the function, line 90 is not
\* reached.
CloseWriterRaises ==
  /\ exportPc = "loop"
  /\ exportIndex > Len(exportLayers)
  /\ DOMAIN sheet = {}
  /\ writerCloses' = writerCloses + 1
  /\ exportPc' = "raised"
  /\ UNCHANGED <<exportLayers, exportIndex, next_row_index, sheet, warnings>>
  /\ UNCHANGED outsideExport

\* line 90: the message; the function returns
ReturnFromExport ==
  /\ exportPc = "close"
  /\ exportPc' = "returned"
  /\ UNCHANGED <<exportLayers, exportIndex, next_row_index, sheet, warnings, writerCloses>>
  /\ UNCHANGED outsideExport

NextExport ==
  \/ ExportLayer
  \/ ExportLayerFailsReading
  \/ ExportLayerFailsWriting
  \/ CloseWriter
  \/ CloseWriterRaises
  \/ ReturnFromExport

SpecExport == InitExport /\ [][NextExport]_vars

\* The script runs on: a step that can be taken is taken.
SpecExportFair == SpecExport /\ WF_vars(NextExport)

(***************************************************************************)
(* Notions the properties of the traversal are stated with.  They are      *)
(* read off the tree itself, not off the traversal.                        *)
(***************************************************************************)
LayerIds == DOMAIN layerObjects

SeqRange(s) == { s[k] : k \in 1..Len(s) }

\* The group layer that lists `id` among its children; 0 for a top-level layer.
ParentLayer(id) ==
  IF \E p \in LayerIds : id \in SeqRange(layerObjects[p].children)
  THEN CHOOSE p \in LayerIds : id \in SeqRange(layerObjects[p].children)
  ELSE 0

\* The layer's own visible flag and that of every ancestor group up to the root.
RECURSIVE EffectivelyVisible(_)
EffectivelyVisible(id) ==
  /\ layerObjects[id].visible
  /\ ParentLayer(id) = 0 \/ EffectivelyVisible(ParentLayer(id))

\* Depth-first pre-order of the layers below `ids`, siblings in their given order.
RECURSIVE PreOrder(_)
PreOrder(ids) ==
  IF ids = <<>> THEN <<>>
  ELSE <<Head(ids)>> \o PreOrder(layerObjects[Head(ids)].children) \o PreOrder(Tail(ids))

IsGroup(id) == layerObjects[id].isGroupLayer

NoDuplicates(s) == \A j, k \in 1..Len(s) : s[j] = s[k] => j = k

\* The inclusion rule: a non-group layer passes iff it is a feature layer with
\* the dataSource capability, is not a basemap layer, and is effectively
\* visible when visible_only is set; a group passes iff groups are asked for
\* and it is effectively visible when visible_only is set.
PassesInclusionRule(id) ==
  IF IsGroup(id)
  THEN include_groups /\ (~visible_only \/ EffectivelyVisible(id))
  ELSE /\ layerObjects[id].isFeatureLayer
       /\ layerObjects[id].supportsDataSource
       /\ ~layerObjects[id].isBasemapLayer
       /\ (~visible_only \/ EffectivelyVisible(id))

(***************************************************************************)
(* C1.  With visible_only=true every non-group layer in the returned list  *)
(* is effectively visible: its own visible flag and the visible flag of    *)
(* every ancestor group are true.                                          *)
(***************************************************************************)
C1_VisibleOnlyReturnsEffectivelyVisibleLeaves ==
  (layerPc = "returned" /\ visible_only) =>
     \A k \in 1..Len(collected_layers) :
        ~IsGroup(collected_layers[k]) => EffectivelyVisible(collected_layers[k])

\* A visible_only call that returned a non-group layer, while a layer whose
\* own flag is true was left out because the group it sits in is invisible.
C1_Witness ==
  /\ layerPc = "returned" /\ visible_only
  /\ \E k \in 1..Len(collected_layers) : ~IsGroup(collected_layers[k])
  /\ \E id \in LayerIds :
        /\ IsCollectableFeatureLayer(layerObjects[id])
        /\ layerObjects[id].visible
        /\ ParentLayer(id) # 0 /\ ~layerObjects[ParentLayer(id)].visible
        /\ id \notin SeqRange(collected_layers)

(***************************************************************************)
(* C2.  The returned list holds no layer whose isBasemapLayer flag is true *)
(* (group layers returned under include_groups included) and no feature    *)
(* layer without the dataSource capability.                                *)
(***************************************************************************)
C2_NoBasemapAndNoSourcelessFeatureLayerReturned ==
  layerPc = "returned" =>
     \A k \in 1..Len(collected_layers) :
        /\ ~layerObjects[collected_layers[k]].isBasemapLayer
        /\ layerObjects[collected_layers[k]].isFeatureLayer
              => layerObjects[collected_layers[k]].supportsDataSource

(***************************************************************************)
(* C3.  The list returned with include_groups=true, with its group layers  *)
(* deleted, is the same sequence as the list returned for the same map and *)
(* the same visible_only with include_groups=false.                        *)
(***************************************************************************)
C3_IncludeGroupsOnlyAddsGroups ==
  (layerPc = "returned" /\ include_groups) =>
     SelectSeq(collected_layers, LAMBDA id : ~IsGroup(id))
       = get_all_feature_layers(mapLayers, TRUE, visible_only, FALSE)

\* An include_groups call that returned a group and a layer inside a group.
C3_Witness ==
  /\ layerPc = "returned" /\ include_groups
  /\ \E j, k \in 1..Len(collected_layers) :
        /\ IsGroup(collected_layers[j])
        /\ ~IsGroup(collected_layers[k])
        /\ ParentLayer(collected_layers[k]) # 0

(***************************************************************************)
(* C4.  The returned list is exactly the depth-first pre-order sequence of *)
(* the tree's layers restricted to those passing the inclusion rule, with  *)
(* no layer twice; groups are descended into whether or not they are       *)
(* themselves returned.                                                    *)
(***************************************************************************)
C4_OutputIsFilteredPreOrder ==
  layerPc = "returned" =>
     /\ collected_layers = SelectSeq(PreOrder(mapLayers), PassesInclusionRule)
     /\ NoDuplicates(collected_layers)

\* A call that returned a layer from inside a group that is not itself
\* returned, next to a top-level layer.
C4_Witness ==
  /\ layerPc = "returned"
  /\ Len(collected_layers) >= 2
  /\ \E k \in 1..Len(collected_layers) :
        LET id == collected_layers[k] IN
        /\ ~IsGroup(id)
        /\ ParentLayer(id) # 0
        /\ ParentLayer(id) \notin SeqRange(collected_layers)
        /\ \E j \in 1..Len(collected_layers) :
              j # k /\ ParentLayer(collected_layers[j]) = 0

(***************************************************************************)
(* Notions the properties of clone_project are stated with.                *)
(***************************************************************************)
\* folder_connections is complete: it is about to be, or has been, passed to
\* updateFolderConnections.
ConnectionsBuilt == clonePc \in {"update", "save", "returned"}

\* updateFolderConnections has run: the project carries its final connections.
ConnectionsInstalled == clonePc \in {"save", "returned"}

\* The normalized (absolute, case-folded) path of a connection.
ConnectionKey(connection) == NormalizedPath(osName, connection.connectionString)

HomeEntries(connections) ==
  { k \in 1..Len(connections) : connections[k].isHomeFolder }

\* The extra folders that are neither empty nor a spelling of the home folder.
KeptExtras ==
  SelectSeq(additional_folder_connections,
            LAMBDA e : /\ e # <<>>
                       /\ NormalizedPath(osName, e)
                            # NormalizedPath(osName, DirName(osName, new_project_path)))

\* [home entry for the project folder] followed by one non-home entry with an
\* empty alias per kept extra folder, in the caller's order.
ExpectedConnections ==
  << [connectionString |-> DirName(osName, new_project_path),
      alias |-> <<>>, isHomeFolder |-> TRUE] >>
  \o [ k \in 1..Len(KeptExtras) |->
         [connectionString |-> KeptExtras[k], alias |-> <<>>, isHomeFolder |-> FALSE] ]

(***************************************************************************)
(* C5.  The list clone_project passes to updateFolderConnections has       *)
(* exactly one entry with isHomeFolder=true, and no other entry's          *)
(* normalized path equals the home entry's normalized path, whatever the   *)
(* extra folders are (empty strings, duplicates, spellings of the home     *)
(* folder).                                                                *)
(***************************************************************************)
C5_ExactlyOneHomeAndNoCopyOfIt ==
  ConnectionsBuilt =>
     /\ Cardinality(HomeEntries(folder_connections)) = 1
     /\ \A h \in HomeEntries(folder_connections) :
           \A k \in 1..Len(folder_connections) :
              k # h => ConnectionKey(folder_connections[k])
                         # ConnectionKey(folder_connections[h])
     /\ ConnectionsInstalled => new_project.folderConnections = folder_connections

\* A list built from extras that hold an empty string, a spelling of the home
\* folder other than the project folder itself, and a folder that is kept.
C5_Witness ==
  /\ ConnectionsBuilt
  /\ \E i, j, k \in 1..Len(additional_folder_connections) :
        /\ additional_folder_connections[i] = <<>>
        /\ additional_folder_connections[j] # project_folder
        /\ NormalizedPath(osName, additional_folder_connections[j])
             = NormalizedPath(osName, project_folder)
        /\ additional_folder_connections[k] # <<>>
        /\ NormalizedPath(osName, additional_folder_connections[k])
             # NormalizedPath(osName, project_folder)
  /\ Len(folder_connections) = 2

(***************************************************************************)
(* C6 as stated.  In the connection set clone_project installs, no two     *)
(* entries resolve to the same normalized path, also when the same         *)
(* non-home folder occurs more than once among the extra folders.          *)
(***************************************************************************)
C6_NoTwoEntriesShareANormalizedPath ==
  ConnectionsInstalled =>
     \A j, k \in 1..Len(new_project.folderConnections) :
        j # k => ConnectionKey(new_project.folderConnections[j])
                   # ConnectionKey(new_project.folderConnections[k])

(***************************************************************************)
(* C6 as amended.  In the installed connection set no entry resolves to    *)
(* the normalized path of the home entry, and two entries resolve to the   *)
(* same normalized path only if both are non-home entries made from two    *)
(* different positions of the extra folders: a non-home folder that the    *)
(* caller lists more than once is installed once per occurrence.           *)
(***************************************************************************)
C6_EntriesShareAPathOnlyAsRepeatedExtras ==
  ConnectionsInstalled =>
     \A j, k \in 1..Len(new_project.folderConnections) :
        (j < k /\ ConnectionKey(new_project.folderConnections[j])
                    = ConnectionKey(new_project.folderConnections[k]))
        => /\ ~new_project.folderConnections[j].isHomeFolder
           /\ ~new_project.folderConnections[k].isHomeFolder
           /\ \E a, b \in 1..Len(additional_folder_connections) :
                 /\ a < b
                 /\ additional_folder_connections[a]
                      = new_project.folderConnections[j].connectionString
                 /\ additional_folder_connections[b]
                      = new_project.folderConnections[k].connectionString

\* An installed set in which a folder listed twice appears twice, while a
\* spelling of the home folder was left out.
C6_Witness ==
  /\ ConnectionsInstalled
  /\ \E j, k \in 1..Len(new_project.folderConnections) :
        /\ j < k
        /\ ConnectionKey(new_project.folderConnections[j])
             = ConnectionKey(new_project.folderConnections[k])
  /\ Len(new_project.folderConnections) < 1 + Len(additional_folder_connections)

(***************************************************************************)
(* C7.  The installed connection set replaces the copied one: it is the    *)
(* home entry for the project folder followed, in the caller's order, by   *)
(* one non-home entry with an empty alias per non-empty extra folder whose *)
(* normalized path differs from the home folder's; nothing is carried over *)
(* from the template, and the saved project holds the same list.           *)
(***************************************************************************)
C7_InstalledSetIsTheRebuiltList ==
  /\ ConnectionsInstalled =>
        /\ new_project.folderConnections = ExpectedConnections
        /\ template_path = TemplateAprx =>
              \A k \in 1..Len(new_project.folderConnections) :
                 new_project.folderConnections[k].connectionString
                    \notin {TemplateFolder, StaleFolder}
  /\ clonePc = "returned" =>
        aprxFiles[new_project_path].folderConnections = ExpectedConnections

\* The example: on a case-insensitive platform, project folder /p and extras
\* [/p, /p/e, /P] give [/p (home), /p/e], from a template that had two
\* connections of its own.
C7_Witness ==
  /\ clonePc = "returned"
  /\ osName = "nt"
  /\ template_path = TemplateAprx
  /\ Len(TemplateProject.folderConnections) = 2
  /\ new_project_path = TargetAprx
  /\ additional_folder_connections
       = << <<"/", "p">>, <<"/", "p", "/", "e">>, <<"/", "P">> >>
  /\ aprxFiles[new_project_path].folderConnections
       = << [connectionString |-> <<"/", "p">>, alias |-> <<>>, isHomeFolder |-> TRUE],
            [connectionString |-> <<"/", "p", "/", "e">>, alias |-> <<>>,
             isHomeFolder |-> FALSE] >>

(***************************************************************************)
(* C8.  Reconciliation is idempotent: a second run of clone_project for    *)
(* the same project folder with the same extra folders, starting from the  *)
(* connection set the first run installed, installs the same list.         *)
(***************************************************************************)
C8_SecondRunInstallsTheSameList ==
  /\ (ConnectionsInstalled /\ firstRunConnections # <<>>) =>
        new_project.folderConnections = firstRunConnections
  /\ (clonePc = "returned" /\ firstRunConnections # <<>>) =>
        aprxFiles[new_project_path].folderConnections = firstRunConnections

\* A second run that has returned, having started from a set of two or more
\* connections that the first run installed from extras it partly skipped.
C8_Witness ==
  /\ clonePc = "returned"
  /\ template_path = new_project_path
  /\ Len(firstRunConnections) >= 2
  /\ Len(firstRunConnections) < 1 + Len(additional_folder_connections)
  /\ aprxFiles[new_project_path].folderConnections = firstRunConnections

(***************************************************************************)
(* C9.  clone_project fails with a destination-exists error whenever       *)
(* something already exists at the target project path: it checks before   *)
(* it copies and never overwrites, so a second call for the same target    *)
(* raises and leaves the project file, the geodatabase and the connection  *)
(* set of the first call unchanged.                                        *)
(***************************************************************************)
C9_ExistingTargetRaisesAndIsLeftAlone ==
  [][ (clonePc = "copy" /\ new_project_path \in DOMAIN aprxFiles)
        => (clonePc' = "raised" /\ aprxFiles' = aprxFiles /\ geodatabases' = geodatabases)
    ]_vars

(***************************************************************************)
(* C10.  With a geodatabase path given: if nothing exists there it is      *)
(* created exactly once and becomes the default geodatabase; if a          *)
(* geodatabase exists there, none is created, no error is raised and it    *)
(* still becomes the default geodatabase.  With no path given nothing is   *)
(* created and the default geodatabase stays as copied from the template.  *)
(***************************************************************************)
C10_GeodatabaseCreatedOnceOrReused ==
  /\ clonePc \in {"home", "build", "update", "save", "returned"} =>
        IF geodatabase_path # <<>>
        THEN /\ geodatabase_path \in geodatabases
             /\ createFileGDBCalls
                  = (IF geodatabase_path \in geodatabasesAtCall THEN 0 ELSE 1)
             /\ geodatabases = geodatabasesAtCall \cup {geodatabase_path}
             /\ new_project.defaultGeodatabase = geodatabase_path
        ELSE /\ createFileGDBCalls = 0
             /\ geodatabases = geodatabasesAtCall
             /\ new_project.defaultGeodatabase
                  = aprxFiles[template_path].defaultGeodatabase
  /\ clonePc = "returned" =>
        aprxFiles[new_project_path].defaultGeodatabase = new_project.defaultGeodatabase
  /\ clonePc = "raised" =>
        (geodatabase_path # <<>> /\ geodatabase_path \notin geodatabasesAtCall)

\* A run that found the geodatabase an earlier run had created: it created
\* nothing and returned with it as the default geodatabase.
C10_Witness ==
  /\ clonePc = "returned"
  /\ geodatabase_path = TargetGeodatabase
  /\ geodatabase_path \in geodatabasesAtCall
  /\ TargetGeodatabase \in geodatabases
  /\ createFileGDBCalls = 0
  /\ firstRunConnections # <<>>
  /\ aprxFiles[new_project_path].defaultGeodatabase = TargetGeodatabase

(***************************************************************************)
(* C11.  When the creation of the geodatabase fails during clone_project,  *)
(* the error reaches the caller and every later step is skipped: the       *)
(* default geodatabase and the home folder are not assigned, the folder    *)
(* connections are not replaced, the project is not saved (the file at the *)
(* new path is still the plain copy of the template), and the run never    *)
(* returns a project: from the failure the only step is the caller seeing  *)
(* the exception, with the disk as it was.                                 *)
(***************************************************************************)
C11_FailedGeodatabaseCreationAbortsTheRun ==
  /\ [](clonePc = "raised" =>
          /\ new_project.defaultGeodatabase = aprxFiles[template_path].defaultGeodatabase
          /\ new_project.homeFolder = aprxFiles[template_path].homeFolder
          /\ new_project.folderConnections = aprxFiles[template_path].folderConnections
          /\ project_folder = NoPath
          /\ folder_connections = <<>>
          /\ aprxFiles[new_project_path] = aprxFiles[template_path]
          /\ geodatabase_path \notin geodatabases)
  /\ [][ (clonePc = "gdb" /\ createFileGDBCalls' > createFileGDBCalls
                          /\ geodatabases' = geodatabases)
           => clonePc' = "raised" ]_vars
  /\ [][ clonePc = "raised"
           => (clonePc' = "idle" /\ aprxFiles' = aprxFiles /\ geodatabases' = geodatabases)
       ]_vars

\* A run that asked for extra connections and a geodatabase, and ended in
\* the failure of CreateFileGDB after the template had been copied.
C11_Witness ==
  /\ clonePc = "raised"
  /\ createFileGDBCalls = 1
  /\ new_project_path \in DOMAIN aprxFiles
  /\ geodatabase_path = TargetGeodatabase
  /\ additional_folder_connections # <<>>

(***************************************************************************)
(* C12.  In every clone_project run that returns, the steps occur in the   *)
(* order copy the template, open the copy, set up the geodatabase, assign  *)
(* the home folder, replace the folder connections, save; each step        *)
(* touches only what is its own; the save comes last, so the project that  *)
(* is returned is the one on disk, with its final connection set, and      *)
(* nothing is written after it.                                            *)
(***************************************************************************)
StepRank(pc) ==
  CASE pc = "copy" -> 1 [] pc = "open" -> 2 [] pc = "gdb" -> 3 [] pc = "home" -> 4
    [] pc = "build" -> 5 [] pc = "update" -> 6 [] pc = "save" -> 7
    [] pc = "returned" -> 8 [] OTHER -> 0

C12_StepsInOrderAndSaveLast ==
  /\ [][ StepRank(clonePc) \in 1..7 =>
           /\ (StepRank(clonePc') = StepRank(clonePc) + 1
                \/ (clonePc = "gdb" /\ clonePc' = "raised"))
           \* 1. the copy: the file appears, holding what the template holds
           /\ clonePc = "copy" =>
                 /\ aprxFiles'[new_project_path] = aprxFiles[template_path]
                 /\ new_project' = new_project
           \* the disk copy of the project is written by the copy and by the save only
           /\ clonePc \notin {"copy", "save"} => aprxFiles' = aprxFiles
           \* 1. the open
           /\ clonePc = "open" => new_project' = aprxFiles[new_project_path]
           \* 2. the geodatabase: nothing but the default geodatabase is assigned
           /\ clonePc = "gdb" =>
                 /\ new_project'.homeFolder = new_project.homeFolder
                 /\ new_project'.folderConnections = new_project.folderConnections
           /\ clonePc # "gdb" => geodatabases' = geodatabases
           \* 3-4. the home folder
           /\ clonePc = "home" =>
                 new_project' = [new_project EXCEPT
                                   !.homeFolder = DirName(osName, new_project_path)]
           \* 5. the connections are built, then installed
           /\ clonePc = "build" => new_project' = new_project
           /\ clonePc = "update" =>
                 new_project' = [new_project EXCEPT
                                   !.folderConnections = folder_connections]
           \* 6. the save
           /\ clonePc = "save" =>
                 /\ new_project' = new_project
                 /\ aprxFiles' = [aprxFiles EXCEPT ![new_project_path] = new_project]
       ]_vars
  /\ [][ clonePc = "returned" => (aprxFiles' = aprxFiles /\ geodatabases' = geodatabases)
       ]_vars
  /\ [](clonePc = "returned" =>
          /\ aprxFiles[new_project_path] = new_project
          /\ new_project.folderConnections = folder_connections
          /\ new_project.homeFolder = project_folder)

\* A run that went through all six steps (it created the geodatabase and
\* installed two or more connections) and returned the saved project.
C12_Witness ==
  /\ clonePc = "returned"
  /\ createFileGDBCalls = 1
  /\ Len(folder_connections) >= 2
  /\ aprxFiles[new_project_path].folderConnections = folder_connections
  /\ aprxFiles[new_project_path] # aprxFiles[TemplateAprx]

(***************************************************************************)
(* C13.  get_all_feature_layers is total: on every finite layer tree it    *)
(* returns a list and never raises, and an object that lacks an attribute  *)
(* the traversal expects (visible, isFeatureLayer, isBasemapLayer, ...) is *)
(* left out of the list.                                                   *)
(***************************************************************************)
C13_NeverRaisesAndLeavesOutIncompleteLayers ==
  /\ layerPc # "raised"
  /\ layerPc = "returned" =>
        \A k \in 1..Len(collected_layers) :
           layerObjects[collected_layers[k]].missing = {}

(***************************************************************************)
(* C14.  create_project_folders(projects_root, name) raises                *)
(* FileExistsError when the project folder already exists, and then        *)
(* creates and changes nothing on disk; otherwise it creates the project   *)
(* folder and its _Exports subfolder and returns the project folder path.  *)
(* This holds of the function of src/arctools.py and of the older one of   *)
(* src/_Scripts/arcgis_utils.py called in this form (include_exports keeps *)
(* its default); the older one makes .backups as well, and no _Exports     *)
(* when include_exports=False is passed.                                   *)
(***************************************************************************)
\* What a call that returned has added to the disk.
DirectoriesMadeBy(call) ==
  LET folder == JoinPath(osName, call.projects_root, call.project_name)
  IN  WithAncestors(osName, folder)
        \cup (IF call.include_exports
              THEN {NormalizedPath(osName, JoinPath(osName, folder, ExportsName))}
              ELSE {})
        \cup (IF call.module = "arcgis_utils"
              THEN {NormalizedPath(osName, JoinPath(osName, folder, BackupsName))}
              ELSE {})

C14_RaisesOnExistingFolderElseCreatesBoth ==
  \A c \in Callers :
     LET call == folderCalls[c]
         folder == JoinPath(osName, call.projects_root, call.project_name)
     IN  /\ call.existedAtCall => call.pc \in {"check", "raised"}
         /\ call.pc = "raised" =>
               /\ call.existedAtCall
               /\ directories = call.directoriesAtCall
         /\ call.pc = "returned" =>
               /\ ~call.existedAtCall
               /\ call.returned = folder
               /\ NormalizedPath(osName, folder) \in directories
               /\ call.include_exports =>
                     NormalizedPath(osName, JoinPath(osName, folder, ExportsName))
                        \in directories
               /\ directories = call.directoriesAtCall \cup DirectoriesMadeBy(call)
         /\ call.module = "arctools" => call.include_exports

\* A call of the function of src/arctools.py for the project N that raised
\* on the folder which an earlier call of the older function had created
\* together with its _Exports subfolder (no disk starts with it).
C14_Witness ==
  \E c \in Callers :
     /\ osName = "posix"
     /\ folderCalls[c].pc = "raised"
     /\ folderCalls[c].module = "arctools"
     /\ folderCalls[c].project_name = <<"N">>
     /\ folderCalls[c].existedAtCall
     /\ <<"/", "r", "/", "N">> \in directories
     /\ <<"/", "r", "/", "N", "/">> \o ExportsName \in directories
     /\ <<"/", "r", "/", "N", "/">> \o BackupsName \in directories

(***************************************************************************)
(* C15.  When make_contractor_bundle completes, every feature layer        *)
(* collected from the first map has been removed from the map, whether its *)
(* clip result was empty or not; the clip result of each collected layer   *)
(* that has features in the search area has been added to the map; the     *)
(* clip result of each collected layer that has none has been deleted from *)
(* the geodatabase and is not in the map.                                  *)
(***************************************************************************)
\* The layers added to the map that show the clip result of `layer_id`.
AddedLayersShowing(layer_id) ==
  { k \in 1..Len(addedLayers) :
       /\ addedLayers[k] \in DOMAIN featureClasses
       /\ featureClasses[addedLayers[k]].source = layer_id }

C15_OriginalsRemovedNonEmptyResultsAddedEmptyDeleted ==
  bundlePc = "done" =>
     \A k \in 1..Len(feature_layers) :
        LET feature_layer == feature_layers[k] IN
        /\ feature_layer \notin layersInMap
        /\ clipFeatureCounts[feature_layer] > 0 => AddedLayersShowing(feature_layer) # {}
        /\ clipFeatureCounts[feature_layer] = 0 =>
              /\ \A q \in DOMAIN featureClasses : featureClasses[q].source # feature_layer
              /\ AddedLayersShowing(feature_layer) = {}

(***************************************************************************)
(* C16.  In make_new_project the final name is the prefix, one underscore  *)
(* and the sanitized project name: for every custom_prefix and             *)
(* project_name, exactly one underscore stands between the prefix part and *)
(* the base-name part, and there is no double underscore at the join.      *)
(***************************************************************************)
C16_SingleUnderscoreAtTheJoin ==
  namePc = "composed" =>
     LET join == Len(safe_prefix) + 1 IN
     /\ full_project_name = safe_prefix \o <<"_">> \o sanitized_base_name
     /\ full_project_name[join] = "_"
     /\ join > 1 => full_project_name[join - 1] # "_"
     /\ join < Len(full_project_name) => full_project_name[join + 1] # "_"

(***************************************************************************)
(* Notions the properties of export_tables_to_excel are stated with.       *)
(***************************************************************************)
\* The layers of the list that were exported without an exception.
ExportedLayers ==
  { i \in 1..(exportIndex - 1) : exportLayers[i].outcome = "exported" }

\* The rows of the sheet that hold the label, or the table, of layer i.
LabelRows(i) ==
  { r \in DOMAIN sheet : sheet[r].layer = i /\ sheet[r].kind = "label" }

TableRowsOf(i) ==
  { r \in DOMAIN sheet : sheet[r].layer = i /\ sheet[r].kind \in {"header", "data"} }

(***************************************************************************)
(* C17.  In export_tables_to_excel the layers are stacked on one sheet as  *)
(* [label row] + [table]: for every sequence of successfully exported      *)
(* layers, whatever their row counts, the label row of a layer is on a row *)
(* after all rows of the table (header included) of the layer exported     *)
(* before it, and a blank row lies between that table and the label row.   *)
(***************************************************************************)
C17_LabelBelowPreviousTableWithBlankRow ==
  \A i, j \in ExportedLayers :
     i < j =>
        /\ Cardinality(LabelRows(i)) = 1
        /\ Cardinality(TableRowsOf(i)) = exportLayers[i].rows + 1
        /\ \A t \in TableRowsOf(i), l \in LabelRows(j) :
              /\ t < l
              /\ \E blank \in (t + 1)..(l - 1) : blank \notin DOMAIN sheet

(***************************************************************************)
(* C20.  In export_tables_to_excel a failure while one layer is exported   *)
(* is reported as a warning and does not abort the export: the loop goes   *)
(* on with the next layer, so every layer of the list is attempted; the    *)
(* writer is closed exactly once, after the loop; and the function         *)
(* returns normally.  Stated of the runs in which some layer fails.        *)
(***************************************************************************)
\* The layers of the list whose export raises, in the order of the list.
FailingLayers ==
  SelectSeq([i \in 1..Len(exportLayers) |-> i],
            LAMBDA i : exportLayers[i].outcome # "exported")

C20_FailureIsWarnedAndExportGoesOn ==
  /\ [](FailingLayers # <<>> => exportPc # "raised")
  /\ [][ warnings' # warnings =>
           /\ warnings' = Append(warnings, exportIndex)
           /\ exportLayers[exportIndex].outcome # "exported"
           /\ exportPc' = "loop"
           /\ exportIndex' = exportIndex + 1
           /\ writerCloses' = 0 ]_vars
  /\ [](FailingLayers # <<>> =>
          writerCloses = (IF exportPc \in {"close", "returned"} THEN 1 ELSE 0))
  /\ [](exportPc \in {"close", "returned"} =>
          /\ exportIndex = Len(exportLayers) + 1
          /\ warnings = FailingLayers
          /\ \A i \in 1..Len(exportLayers) :
                exportLayers[i].outcome = "exported" => LabelRows(i) # {})
  /\ <>(FailingLayers = <<>> \/ exportPc = "returned")

(***************************************************************************)
(* C18.  A group layer with no children is left out of the list returned  *)
(* by get_all_feature_layers unless include_groups is true and the group   *)
(* is visible (its own flag and the flags of all its ancestors).           *)
(***************************************************************************)
\* The group layers without children.
EmptyGroups == { id \in LayerIds : IsGroup(id) /\ layerObjects[id].children = <<>> }

C18_EmptyGroupReturnedOnlyWhenVisible ==
  layerPc = "returned" =>
     \A id \in EmptyGroups :
        id \in SeqRange(collected_layers) => (include_groups /\ EffectivelyVisible(id))

(***************************************************************************)
(* C19.  After a successful clone_project the project's home folder is the *)
(* directory that contains the new project path, and the single folder     *)
(* connection flagged isHomeFolder has that same path (in the returned     *)
(* project and in the saved one).                                          *)
(***************************************************************************)
\* `folder` is the directory containing `path`: the path is the folder, a
\* separator, and a file name without separators.
IsContainingDirectory(folder, path) ==
  /\ Len(folder) + 1 < Len(path)
  /\ SubSeq(path, 1, Len(folder)) = folder
  /\ path[Len(folder) + 1] \in Separators(osName)
  /\ \A k \in (Len(folder) + 2)..Len(path) : path[k] \notin Separators(osName)

C19_HomeFolderIsTheProjectDirectory ==
  clonePc = "returned" =>
     /\ IsContainingDirectory(new_project.homeFolder, new_project_path)
     /\ Cardinality(HomeEntries(new_project.folderConnections)) = 1
     /\ \A h \in HomeEntries(new_project.folderConnections) :
           new_project.folderConnections[h].connectionString = new_project.homeFolder
     /\ aprxFiles[new_project_path].homeFolder = new_project.homeFolder
     /\ aprxFiles[new_project_path].folderConnections = new_project.folderConnections

\* A run from the template (whose home folder is elsewhere) that returned a
\* project with extra connections besides the home entry.
C19_Witness ==
  /\ clonePc = "returned"
  /\ template_path = TemplateAprx
  /\ aprxFiles[template_path].homeFolder # new_project.homeFolder
  /\ Len(new_project.folderConnections) >= 2
  /\ new_project.folderConnections[1].isHomeFolder
  /\ new_project.folderConnections[1].connectionString = DirName(osName, new_project_path)

(***************************************************************************)
(* C21.  In make_contractor_bundle the clip output paths of distinct       *)
(* collected layers are pairwise distinct, so that no clip overwrites the  *)
(* output of an earlier layer and every path listed for adding to the map  *)
(* is still a feature class of the geodatabase (it was not deleted as the  *)
(* empty result of another layer).                                         *)
(***************************************************************************)
\* The output path of the layer at position k of feature_layers.
ClipOutputPath(k) == OutputFeatureClassPath(layerNames[feature_layers[k]])

C21_ClipOutputPathsPairwiseDistinct ==
  /\ \A i, j \in 1..Len(feature_layers) :
        i # j => ClipOutputPath(i) # ClipOutputPath(j)
  /\ \A k \in 1..Len(output_paths_to_add) :
        /\ output_paths_to_add[k] \in DOMAIN featureClasses
        /\ \A j \in 1..(clipIndex - 1) :
              ClipOutputPath(j) = output_paths_to_add[k]
                 => featureClasses[output_paths_to_add[k]].source = feature_layers[j]

(***************************************************************************)
(* C22.  When two invocations of create_project_folders for the same       *)
(* project folder interleave in any order (both may pass the existence     *)
(* check before either creates the folder), at most one of them returns    *)
(* successfully and the other raises FileExistsError: the folder is never  *)
(* reported as newly created by both.                                      *)
(***************************************************************************)
\* The two invocations in progress are for the same folder on disk.
SameProjectFolder(c, d) ==
  /\ folderCalls[c].pc # "idle"
  /\ folderCalls[d].pc # "idle"
  /\ NormalizedPath(osName, folderCalls[c].project_folder)
        = NormalizedPath(osName, folderCalls[d].project_folder)

\* The invocation has made the project folder (line 163 did not raise).
HasCreatedFolder(c) == folderCalls[c].pc \in {"exports", "returned"}

\* The invocation is between its entry and the end of line 163.
IsBeforeCreation(c) == folderCalls[c].pc \in {"check", "makedirs", "mkparent", "mkdir"}

\* No two invocations for one folder have both made it or both returned it.
AtMostOneCreates ==
  \A c, d \in Callers :
     (c # d /\ SameProjectFolder(c, d)) => ~(HasCreatedFolder(c) /\ HasCreatedFolder(d))

\* An invocation that takes a step after the other has made the same folder
\* raises FileExistsError when that step is the check of line 160 or the
\* mkdir of the folder in line 163; any other step it takes is inside
\* os.makedirs, on its way to that mkdir.  It does not touch the disk
\* again.
TheOtherRaises ==
  \A c, d \in Callers :
     ( /\ c # d
       /\ SameProjectFolder(c, d)
       /\ HasCreatedFolder(c)
       /\ IsBeforeCreation(d)
       /\ folderCalls'[d] # folderCalls[d] )
     => /\ directories' = directories
        /\ folderCalls[d].pc = "check" =>
              (folderCalls'[d].pc = "raised" /\ folderCalls'[d].raisedAt = 161)
        /\ folderCalls[d].pc = "mkdir" =>
              (folderCalls'[d].pc = "raised" /\ folderCalls'[d].raisedAt = 163)
        /\ folderCalls[d].pc \in {"makedirs", "mkparent"} => folderCalls'[d].pc = "mkdir"

\* An invocation that raised did so with FileExistsError at the check or in
\* os.makedirs(project_folder), where the folder was there.
RaisedOnTheFolder ==
  \A c \in Callers :
     folderCalls[c].pc = "raised" =>
        /\ folderCalls[c].raisedAt \in {161, 163}
        /\ PathExists(osName, folderCalls[c].project_folder)

C22_AtMostOneOfTwoInterleavedCallsReturns ==
  /\ []AtMostOneCreates
  /\ []RaisedOnTheFolder
  /\ [][TheOtherRaises]_vars

\* Both invocations passed the existence check while the folder and the
\* Projects root above it were not there; the one that made the Projects
\* root raised in os.makedirs, on the folder the other one has made and
\* returned.
C22_Witness ==
  \E c, d \in Callers :
     /\ c # d
     /\ SameProjectFolder(c, d)
     /\ folderCalls[c].pc = "returned"
     /\ folderCalls[d].pc = "raised"
     /\ folderCalls[d].raisedAt = 163
     /\ ~folderCalls[d].existedAtCall
     /\ folderCalls[d].directoriesAtCall = {RootDirectory(osName)}
     /\ folderCalls[c].directoriesAtCall
           = {RootDirectory(osName), NormalizedPath(osName, <<"/", "r">>)}

(***************************************************************************)
(* C23.  On every layer tree without basemap layers the older              *)
(* get_visible_feature_layers(layers) returns the same sequence as         *)
(* get_all_feature_layers(layers, visible_only=True, include_groups=False).*)
(***************************************************************************)
C23_LegacyTraversalReturnsTheSameSequence ==
  ( /\ legacyPc = "returned"
    /\ layerPc = "returned"
    /\ visible_only
    /\ ~include_groups )
  => visible_layers = collected_layers

\* Both calls have returned, with at least one layer in the list, on a map
\* where a feature layer with its own flag set is left out because a group
\* above it is not visible.
C23_Witness ==
  /\ legacyPc = "returned"
  /\ layerPc = "returned"
  /\ visible_only
  /\ ~include_groups
  /\ Len(visible_layers) >= 1
  /\ \E id \in LayerIds :
        /\ ~IsGroup(id)
        /\ layerObjects[id].visible
        /\ layerObjects[id].isFeatureLayer
        /\ layerObjects[id].supportsDataSource
        /\ ~EffectivelyVisible(id)
        /\ id \notin SeqRange(visible_layers)

====
